---- MODULE Spec2Model ----
(***************************************************************************)
(* A model of the WAA agent (src/waa): the turn-based tool-calling loop of  *)
(* Agent.run, the history and its projection to model-input messages, the   *)
(* response parser, the dispatch of Agent.execute_tool and the tool schema  *)
(* validation of src/waa/tool.py.                                           *)
(*                                                                          *)
(* Texts are TLA+ strings.  A response of the model is kept as the sequence  *)
(* of segments its text is made of (Render gives the text): the substring   *)
(* test, the regular expression and json.loads of Agent.run read the        *)
(* segments.                                                                *)
(***************************************************************************)
EXTENDS Integers, Sequences, FiniteSets, TLC

(***************************************************************************)
(* Python values.  Every value is a record of one shape: ty is the Python   *)
(* type name, b / n / s the payload of a bool / int / str, and items the    *)
(* (key, value) pairs of a dict in insertion order or the elements of a     *)
(* list (with key "").                                                      *)
(***************************************************************************)
PyNone == [ty |-> "NoneType", b |-> FALSE, n |-> 0, s |-> "", items |-> <<>>]

PyBool(b) == [ty |-> "bool", b |-> b, n |-> 0, s |-> "", items |-> <<>>]

PyInt(n) == [ty |-> "int", b |-> FALSE, n |-> n, s |-> "", items |-> <<>>]

PyStr(s) == [ty |-> "str", b |-> FALSE, n |-> 0, s |-> s, items |-> <<>>]

KV(k, v) == [k |-> k, v |-> v]

PyDict(items) == [ty |-> "dict", b |-> FALSE, n |-> 0, s |-> "", items |-> items]

PyList(elems) ==
    [ty |-> "list", b |-> FALSE, n |-> 0, s |-> "",
     items |-> [i \in 1..Len(elems) |-> KV("", elems[i])]]

\* An object json.dumps cannot serialize (a set, a Path, an exception); s is
\* the text str() and repr() give of it.
PyObject(s) == [ty |-> "object", b |-> FALSE, n |-> 0, s |-> s, items |-> <<>>]

\* An object whose __str__ and __repr__ raise.
PyBadObject == [ty |-> "badobject", b |-> FALSE, n |-> 0, s |-> "", items |-> <<>>]

\* bool(v): Python truthiness, as used by "if not tool_name" and "if error".
Truthy(v) ==
    CASE v.ty = "NoneType" -> FALSE
      [] v.ty = "bool" -> v.b
      [] v.ty = "int" -> v.n # 0
      [] v.ty = "str" -> v.s # ""
      [] v.ty \in {"object", "badobject"} -> TRUE
      [] OTHER -> Len(v.items) > 0

\* hash(v) is defined: a dict or a list cannot be the key of a dict lookup.
Hashable(v) == v.ty \notin {"dict", "list"}

\* d.get(key, default) for a dict d.
DictHas(d, key) == \E i \in 1..Len(d.items) : d.items[i].k = key

DictGet(d, key, default) ==
    IF DictHas(d, key)
    THEN d.items[CHOOSE i \in 1..Len(d.items) :
                    /\ d.items[i].k = key
                    /\ \A j \in (i+1)..Len(d.items) : d.items[j].k # key].v
    ELSE default

RECURSIVE JoinWith(_, _)
\* sep.join(parts)
JoinWith(parts, sep) ==
    IF Len(parts) = 0 THEN ""
    ELSE IF Len(parts) = 1 THEN parts[1]
    ELSE parts[1] \o sep \o JoinWith(Tail(parts), sep)

RECURSIVE Serializable(_)
\* json.dumps(v) does not raise TypeError.
Serializable(v) ==
    /\ v.ty \notin {"object", "badobject"}
    /\ \A i \in 1..Len(v.items) : Serializable(v.items[i].v)

RECURSIVE Printable(_)
\* str(v) and repr(v) do not raise.
Printable(v) ==
    /\ v.ty # "badobject"
    /\ \A i \in 1..Len(v.items) : Printable(v.items[i].v)

RECURSIVE json_dumps(_)
\* json.dumps(v) with the default separators.
json_dumps(v) ==
    CASE v.ty = "NoneType" -> "null"
      [] v.ty = "bool" -> IF v.b THEN "true" ELSE "false"
      [] v.ty = "int" -> ToString(v.n)
      [] v.ty = "str" -> "\"" \o v.s \o "\""
      [] v.ty = "list" ->
           "[" \o JoinWith([i \in 1..Len(v.items) |-> json_dumps(v.items[i].v)], ", ") \o "]"
      [] OTHER ->
           "{" \o JoinWith([i \in 1..Len(v.items) |->
                              "\"" \o v.items[i].k \o "\": " \o json_dumps(v.items[i].v)], ", ")
               \o "}"

RECURSIVE py_repr(_)
\* repr(v): what str() of a container shows of its elements.
py_repr(v) ==
    CASE v.ty = "NoneType" -> "None"
      [] v.ty = "bool" -> IF v.b THEN "True" ELSE "False"
      [] v.ty = "int" -> ToString(v.n)
      [] v.ty = "str" -> "'" \o v.s \o "'"
      [] v.ty \in {"object", "badobject"} -> v.s
      [] v.ty = "list" ->
           "[" \o JoinWith([i \in 1..Len(v.items) |-> py_repr(v.items[i].v)], ", ") \o "]"
      [] OTHER ->
           "{" \o JoinWith([i \in 1..Len(v.items) |->
                              "'" \o v.items[i].k \o "': " \o py_repr(v.items[i].v)], ", ")
               \o "}"

\* str(v), also what an f-string shows of v.
py_str(v) == IF v.ty = "str" THEN v.s ELSE py_repr(v)

(***************************************************************************)
(* Exceptions.  An operation that can raise yields a record with the flag   *)
(* raised, the exception's class name and its message.                      *)
(***************************************************************************)
NoExc == [raised |-> FALSE, kind |-> "", msg |-> ""]

Exc(kind, msg) == [raised |-> TRUE, kind |-> kind, msg |-> msg]

(***************************************************************************)
(* src/waa/tool.py: ToolArgument, ToolSchema, Tool, ToolRegistry.           *)
(***************************************************************************)
\* ToolArgument(name, description, required, type); type is a Python type name.
ToolArgument(name, required, type) == [name |-> name, required |-> required, type |-> type]

\* A faulty variant of ArgumentValidate that accepts a value of any type.
ArgumentValidateAnyType(argument, input) == TRUE

\* ToolArgument.validate: the value's exact type is the declared one.
ArgumentValidate(argument, input) == ~(argument.type # "" /\ input.ty # argument.type)

\* "name in input": membership by the type of input.  The string values of
\* the model are an argument name or share no substring with one, so the
\* substring test on a str is equality.
PyContains(input, name) ==
    CASE input.ty = "dict" -> DictHas(input, name)
      [] input.ty = "list" -> \E i \in 1..Len(input.items) : input.items[i].v = PyStr(name)
      [] input.ty = "str" -> input.s = name
      [] OTHER -> FALSE

\* The TypeError of "name in input" when input is no container, of
\* "input[name]" when input is a list or a str.
ContainsRaises(input) == input.ty \notin {"dict", "list", "str"}

ContainsError(input) == Exc("TypeError", "argument of type '" \o input.ty \o "' is not iterable")

SubscriptRaises(input) == input.ty # "dict"

SubscriptError(input) ==
    IF input.ty = "list"
    THEN Exc("TypeError", "list indices must be integers or slices, not str")
    ELSE Exc("TypeError", "string indices must be integers, not 'str'")

\* One iteration of the loop of ToolSchema.validate.
ValidateArgument(argument, input) ==
    IF ContainsRaises(input) THEN ContainsError(input)
    ELSE IF ~PyContains(input, argument.name)
         THEN IF argument.required
              THEN Exc("ValueError", "Argument " \o argument.name \o " is required")
              ELSE NoExc
    ELSE IF SubscriptRaises(input) THEN SubscriptError(input)
    ELSE IF ~ArgumentValidate(argument, DictGet(input, argument.name, PyNone))
         THEN Exc("ValueError", "Argument " \o argument.name \o " is invalid")
    ELSE NoExc

\* A faulty variant of SchemaValidate that rejects a key no argument declares.
SchemaValidateStrict(arguments, input) ==
    IF \E i \in 1..Len(input.items) :
          \A j \in 1..Len(arguments) : arguments[j].name # input.items[i].k
    THEN Exc("ValueError", "Unexpected argument")
    ELSE NoExc

RECURSIVE SchemaValidate(_, _)
\* ToolSchema.validate: the arguments in registration order, the first
\* exception ends the loop.
SchemaValidate(arguments, input) ==
    IF Len(arguments) = 0 THEN NoExc
    ELSE LET e == ValidateArgument(Head(arguments), input)
         IN  IF e.raised THEN e ELSE SchemaValidate(Tail(arguments), input)

\* Tool.__init__ and the register_argument calls of a tool's constructor.
Tool(name, arguments) == [name |-> name, schema |-> arguments]

\* The tools of src/waa/tools, in the order initialize_tool_registry finds
\* them: the modules server, supertest, playwright, fs, todo, and in each the
\* classes by name (dir(mod) is sorted).
AllTools == <<
    Tool("npm.init", <<>>),
    Tool("npm.logs", <<ToolArgument("lines", FALSE, "int")>>),
    Tool("npm.start", <<>>),
    Tool("npm.status", <<>>),
    Tool("npm.stop", <<>>),
    Tool("supertest.init", <<>>),
    Tool("supertest.run", <<ToolArgument("test_file", FALSE, "str"),
                            ToolArgument("verbose", FALSE, "bool")>>),
    Tool("playwright.init", <<>>),
    Tool("playwright.run", <<ToolArgument("test_file", FALSE, "str"),
                             ToolArgument("headed", FALSE, "bool")>>),
    Tool("fs.mkdir", <<ToolArgument("path", TRUE, "str")>>),
    Tool("fs.rmdir", <<ToolArgument("path", TRUE, "str"),
                       ToolArgument("recursive", FALSE, "bool")>>),
    Tool("fs.ls", <<ToolArgument("path", FALSE, "str")>>),
    Tool("fs.tree", <<ToolArgument("path", FALSE, "str"),
                      ToolArgument("max_depth", FALSE, "int")>>),
    Tool("fs.write", <<ToolArgument("path", TRUE, "str"),
                       ToolArgument("content", TRUE, "str")>>),
    Tool("fs.delete", <<ToolArgument("path", TRUE, "str")>>),
    Tool("fs.edit", <<ToolArgument("path", TRUE, "str"),
                      ToolArgument("old_text", TRUE, "str"),
                      ToolArgument("new_text", TRUE, "str")>>),
    Tool("fs.read", <<ToolArgument("path", TRUE, "str")>>),
    Tool("todo.add", <<ToolArgument("description", TRUE, "str")>>),
    Tool("todo.complete", <<ToolArgument("id", TRUE, "int")>>),
    Tool("todo.list", <<ToolArgument("status", FALSE, "str")>>),
    Tool("todo.remove", <<ToolArgument("id", TRUE, "int")>>) >>

ToolNames == {AllTools[i].name : i \in 1..Len(AllTools)}

\* A faulty variant of register_tool that keeps the tool a name already has.
register_tool_first_wins(tools, tool) ==
    [n \in DOMAIN tools \cup {tool.name} |-> IF n \in DOMAIN tools THEN tools[n] ELSE tool]

\* ToolRegistry.register_tool: tools[tool.name] = tool, the last one wins.
register_tool(tools, tool) ==
    [n \in DOMAIN tools \cup {tool.name} |-> IF n = tool.name THEN tool ELSE tools[n]]

\* ToolRegistry.get_tool: tools[name].  A key that cannot be hashed raises
\* TypeError, a key that is not in the dict raises KeyError.
get_tool_raises(tools, name) ==
    IF ~Hashable(name) THEN Exc("TypeError", "unhashable type: '" \o name.ty \o "'")
    ELSE IF name.ty = "str" /\ name.s \in DOMAIN tools THEN NoExc
    ELSE Exc("KeyError", py_repr(name))

(***************************************************************************)
(* Response texts.  A response text is the concatenation of segments: the   *)
(* termination marker, the two tags of the tool-call wrapper, a blank,      *)
(* prose, the serialization of a JSON document, or text that is no JSON.    *)
(* The strings inside the documents hold neither tag of the wrapper.        *)
(***************************************************************************)
Seg(kind, s, val) == [kind |-> kind, s |-> s, val |-> val]

SegTerminate == Seg("terminate", "<terminate>", PyNone)

SegOpen == Seg("open", "<tool_call>", PyNone)

SegClose == Seg("close", "</tool_call>", PyNone)

SegSpace == Seg("space", " ", PyNone)

SegProse == Seg("prose", "Let me check the project structure.", PyNone)

\* Single quotes: not JSON.
SegMalformed == Seg("malformed", "{'tool': 'fs.read'}", PyNone)

SegJson(val) == Seg("json", json_dumps(val), val)

RECURSIVE Render(_)
\* The text made of the segments.
Render(segs) == IF Len(segs) = 0 THEN "" ELSE Head(segs).s \o Render(Tail(segs))

\* The call objects a model may send.
CallObj(tool, arguments) == PyDict(<<KV("tool", tool), KV("arguments", arguments)>>)

Args1(k, v) == PyDict(<<KV(k, v)>>)

DocWrite ==
    CallObj(PyStr("fs.write"),
            PyDict(<<KV("path", PyStr("index.html")), KV("content", PyStr("hi"))>>))

DocRead == CallObj(PyStr("fs.read"), Args1("path", PyStr("index.html")))

DocInit == CallObj(PyStr("npm.init"), PyDict(<<>>))

DocDelete == CallObj(PyStr("fs.delete"), Args1("path", PyStr("index.html")))

DocExtra ==
    CallObj(PyStr("fs.read"),
            PyDict(<<KV("path", PyStr("index.html")), KV("extra", PyInt(1))>>))

DocWriteTerminate ==
    CallObj(PyStr("fs.write"),
            PyDict(<<KV("path", PyStr("index.html")), KV("content", PyStr("<terminate>"))>>))

DocNoTool == PyDict(<<KV("arguments", Args1("path", PyInt(5)))>>)

DocEmptyTool == CallObj(PyStr(""), Args1("path", PyInt(5)))

DocUnknown == CallObj(PyStr("fs.chmod"), Args1("path", PyInt(5)))

DocNoArguments == PyDict(<<KV("tool", PyStr("fs.read"))>>)

DocBadType == CallObj(PyStr("fs.read"), Args1("path", PyInt(5)))

DocArgsList == CallObj(PyStr("fs.read"), PyList(<<PyStr("path")>>))

DocArgsInt == CallObj(PyStr("fs.read"), PyInt(5))

DocArgsStr == CallObj(PyStr("fs.read"), PyStr("path"))

DocArgsNull == CallObj(PyStr("npm.init"), PyNone)

DocToolInt == PyDict(<<KV("tool", PyInt(5))>>)

DocToolZero == PyDict(<<KV("tool", PyInt(0))>>)

DocToolTrue == PyDict(<<KV("tool", PyBool(TRUE))>>)

DocToolNull == PyDict(<<KV("tool", PyNone)>>)

DocToolList == PyDict(<<KV("tool", PyList(<<PyStr("fs.read")>>))>>)

DocToolEmptyList == PyDict(<<KV("tool", PyList(<<>>))>>)

DocToolDict == PyDict(<<KV("tool", Args1("name", PyStr("fs.read")))>>)

\* JSON documents that are no object.
DocList == PyList(<<PyInt(1)>>)

DocString == PyStr("fs.read")

DocNumber == PyInt(5)

DocNull == PyNone

ObjectDocs ==
    {DocWrite, DocRead, DocInit, DocDelete, DocExtra, DocWriteTerminate, DocNoTool,
     DocEmptyTool, DocUnknown, DocNoArguments, DocBadType, DocArgsList, DocArgsInt,
     DocArgsStr, DocArgsNull, DocToolInt, DocToolZero, DocToolTrue, DocToolNull,
     DocToolList, DocToolEmptyList, DocToolDict}

JsonDocs == ObjectDocs \cup {DocList, DocString, DocNumber, DocNull}

Wrapped(doc) == <<SegOpen, SegJson(doc), SegClose>>

\* The responses of the model backend, each as the segments of its text.
Responses ==
    {Wrapped(d) : d \in JsonDocs} \cup
    { <<SegTerminate>>,
      <<SegTerminate>> \o Wrapped(DocWrite),
      Wrapped(DocWrite) \o <<SegTerminate>>,
      <<SegProse>>,
      <<>>,
      <<SegOpen, SegJson(DocRead)>>,
      <<SegClose, SegJson(DocRead), SegOpen>>,
      <<SegOpen, SegMalformed, SegClose>>,
      <<SegOpen, SegClose>>,
      <<SegOpen, SegOpen, SegJson(DocRead), SegClose>>,
      Wrapped(DocRead) \o Wrapped(DocDelete),
      Wrapped(DocList) \o Wrapped(DocRead),
      <<SegOpen, SegMalformed, SegClose>> \o Wrapped(DocRead),
      <<SegProse>> \o Wrapped(DocRead) \o <<SegProse>>,
      <<SegOpen, SegSpace, SegJson(DocRead), SegSpace, SegClose>> }

RECURSIVE Mentions(_, _)
\* A string of the JSON value is the literal.
Mentions(v, lit) ==
    \/ v.ty = "str" /\ v.s = lit
    \/ \E i \in 1..Len(v.items) : v.items[i].k = lit \/ Mentions(v.items[i].v, lit)

\* A faulty variant of is_termination that gives way to a tool-call wrapper.
is_termination_unless_wrapped(segs) ==
    /\ \E i \in 1..Len(segs) : segs[i].kind = "terminate"
    /\ ~\E i \in 1..Len(segs) : segs[i].kind = "open"

\* "<terminate>" in resp_text
is_termination(segs) ==
    \E i \in 1..Len(segs) :
        \/ segs[i].kind = "terminate"
        \/ segs[i].kind = "json" /\ Mentions(segs[i].val, "<terminate>")

\* The opening tags of resp_text that a closing tag follows.
MatchStarts(segs) ==
    {i \in 1..Len(segs) :
        /\ segs[i].kind = "open"
        /\ \E j \in (i+1)..Len(segs) : segs[j].kind = "close"}

\* tool_pat.search(resp_text) for <tool_call>(.*?)</tool_call> with DOTALL:
\* the leftmost opening tag that a closing tag follows, up to the first
\* closing tag after it.  start = 0 when there is no match.
tool_pat_search(segs) ==
    IF MatchStarts(segs) = {} THEN [start |-> 0, end |-> 0]
    ELSE \* the first opening tag, the first closing tag after it
         [start |-> CHOOSE o \in MatchStarts(segs) : \A p \in MatchStarts(segs) : o <= p,
          end |-> CHOOSE c \in 1..Len(segs) :
                    /\ segs[c].kind = "close"
                    /\ \E o \in MatchStarts(segs) :
                         /\ \A p \in MatchStarts(segs) : o <= p
                         /\ o < c
                         /\ \A d \in (o+1)..(c-1) : segs[d].kind # "close"]

RECURSIVE LStrip(_)
LStrip(segs) ==
    IF Len(segs) > 0 /\ Head(segs).kind = "space" THEN LStrip(Tail(segs)) ELSE segs

RECURSIVE RStrip(_)
RStrip(segs) ==
    IF Len(segs) > 0 /\ segs[Len(segs)].kind = "space"
    THEN RStrip(SubSeq(segs, 1, Len(segs) - 1)) ELSE segs

\* m.group(1).strip(), as segments
group1_strip(segs) ==
    RStrip(LStrip(SubSeq(segs, tool_pat_search(segs).start + 1, tool_pat_search(segs).end - 1)))

\* json.loads(json_str): json_str is the serialization of one document, or
\* a JSONDecodeError with the library's message for the text.
json_loads(json_segs) ==
    IF Len(json_segs) = 1 /\ json_segs[1].kind = "json"
    THEN [exc |-> NoExc, val |-> json_segs[1].val]
    ELSE [exc |-> Exc("JSONDecodeError",
                      IF Len(json_segs) > 0 /\ json_segs[1].kind = "malformed"
                      THEN "Expecting property name enclosed in double quotes: line 1 column 2 (char 1)"
                      ELSE "Expecting value: line 1 column 1 (char 0)"),
          val |-> PyNone]

(***************************************************************************)
(* src/waa/history.py: the four kinds of history entry.  One record shape:  *)
(* cls is the class, role the role given to HistoryEntry.__init__, and the  *)
(* other fields the attributes of the class (blank for the other classes).  *)
(* The timestamps are left out.                                             *)
(***************************************************************************)
Entry(cls, role, prompt, instruction, response, tool_name, arguments, result, error) ==
    [cls |-> cls, role |-> role, prompt |-> prompt, instruction |-> instruction,
     response |-> response, tool_name |-> tool_name, arguments |-> arguments,
     result |-> result, error |-> error]

SystemPrompt(prompt) ==
    Entry("SystemPrompt", "system", prompt, "", "", PyNone, PyNone, PyNone, PyNone)

UserInstruction(instruction) ==
    Entry("UserInstruction", "user", "", instruction, "", PyNone, PyNone, PyNone, PyNone)

LLMResponse(response) ==
    Entry("LLMResponse", "assistant", "", "", response, PyNone, PyNone, PyNone, PyNone)

ToolCallResult(tool_name, arguments, result, error) ==
    Entry("ToolCallResult", "tool", "", "", "", tool_name, arguments, result, error)

\* An instance of the base class: its get_content raises NotImplementedError.
HistoryEntry(role) ==
    Entry("HistoryEntry", role, "", "", "", PyNone, PyNone, PyNone, PyNone)

\* An entry of a class outside history.py whose get_content and __str__ raise.
BrokenEntry(role) ==
    Entry("BrokenEntry", role, "", "", "", PyNone, PyNone, PyNone, PyNone)

\* entry.get_content() raises.
get_content_raises(entry) == entry.cls \in {"HistoryEntry", "BrokenEntry"}

\* str(entry): object.__str__, the address left out; raises for a BrokenEntry.
entry_str(entry) == "<waa.history." \o entry.cls \o " object>"

\* get_content of the entry's class.
get_content(entry) ==
    CASE entry.cls = "SystemPrompt" -> PyStr(entry.prompt)
      [] entry.cls = "UserInstruction" -> PyStr(entry.instruction)
      [] entry.cls = "LLMResponse" -> PyStr(entry.response)
      [] OTHER -> PyDict(<<KV("tool_name", entry.tool_name), KV("arguments", entry.arguments),
                           KV("result", entry.result), KV("error", entry.error)>>)

(***************************************************************************)
(* src/waa/agent.py: the projection of the history to messages.             *)
(***************************************************************************)
\* A faulty variant of extract_text_for_entry that shows the result also when the
\* entry has an error.
extract_text_ignoring_error(entry) ==
    IF entry.cls = "ToolCallResult"
    THEN IF entry.result.ty \in {"dict", "list"}
         THEN "[Tool:" \o py_str(entry.tool_name) \o "] " \o json_dumps(entry.result)
         ELSE "[Tool:" \o py_str(entry.tool_name) \o "] " \o py_str(entry.result)
    ELSE LET content == get_content(entry)
         IN  IF content.ty \in {"dict", "list"} THEN json_dumps(content) ELSE py_str(content)

\* Agent._extract_text_for_entry, the first try: the text of a ToolCallResult.
\* done is FALSE when the block is left without a return (not a
\* ToolCallResult, or an exception that the except swallows).
tcr_text(entry) ==
    IF entry.cls # "ToolCallResult" \/ ~Printable(entry.tool_name)
    THEN [done |-> FALSE, text |-> ""]
    ELSE IF Truthy(entry.error)
    THEN IF Printable(entry.error)
         THEN [done |-> TRUE,
               text |-> "[Tool:" \o py_str(entry.tool_name) \o "] (error) " \o py_str(entry.error)]
         ELSE [done |-> FALSE, text |-> ""]
    ELSE IF entry.result.ty \in {"dict", "list"} /\ Serializable(entry.result)
    THEN [done |-> TRUE,
          text |-> "[Tool:" \o py_str(entry.tool_name) \o "] " \o json_dumps(entry.result)]
    ELSE IF Printable(entry.result)
    THEN [done |-> TRUE,
          text |-> "[Tool:" \o py_str(entry.tool_name) \o "] " \o py_str(entry.result)]
    ELSE [done |-> FALSE, text |-> ""]

\* The second try: the text of entry.get_content().
content_text(entry) ==
    IF get_content_raises(entry)
    THEN [done |-> FALSE, text |-> ""]
    ELSE IF get_content(entry).ty \in {"dict", "list"}
    THEN IF Serializable(get_content(entry))
         THEN [done |-> TRUE, text |-> json_dumps(get_content(entry))]
         ELSE [done |-> FALSE, text |-> ""]
    ELSE IF Printable(get_content(entry))
    THEN [done |-> TRUE, text |-> py_str(get_content(entry))]
    ELSE [done |-> FALSE, text |-> ""]

\* A faulty variant of extract_text_outcome without the handlers of the second
\* try: what get_content or the serialization raises leaves the function.
extract_text_outcome_unguarded(entry) ==
    IF tcr_text(entry).done THEN [exc |-> NoExc, text |-> tcr_text(entry).text]
    ELSE IF content_text(entry).done THEN [exc |-> NoExc, text |-> content_text(entry).text]
    ELSE IF get_content_raises(entry)
    THEN [exc |-> Exc("NotImplementedError", "Subclasses must implement this method"), text |-> ""]
    ELSE [exc |-> Exc("TypeError", "Object is not JSON serializable"), text |-> ""]

\* Agent._extract_text_for_entry with what leaves it: the text returned, and
\* the exception raised (every handler is "except Exception", none re-raises).
extract_text_outcome(entry) ==
    IF tcr_text(entry).done THEN [exc |-> NoExc, text |-> tcr_text(entry).text]
    ELSE IF content_text(entry).done THEN [exc |-> NoExc, text |-> content_text(entry).text]
    ELSE IF entry.cls # "BrokenEntry" THEN [exc |-> NoExc, text |-> entry_str(entry)]
    ELSE [exc |-> NoExc, text |-> ""]

\* Agent._extract_text_for_entry: the text returned.
extract_text_for_entry(entry) == extract_text_outcome(entry).text

\* The role Agent._history_to_messages gives the message of an entry.
message_role(entry) ==
    CASE entry.cls = "SystemPrompt" -> "system"
      [] entry.cls = "UserInstruction" -> "user"
      [] entry.cls = "LLMResponse" -> "assistant"
      [] entry.cls = "ToolCallResult" -> "system"
      [] OTHER -> "system"

\* A faulty variant of history_to_messages that leaves the tool results out.
history_to_messages_without_tools(entries) ==
    LET kept == SelectSeq(entries, LAMBDA e : e.cls # "ToolCallResult")
    IN  [i \in 1..Len(kept) |->
            [role |-> message_role(kept[i]), content |-> extract_text_for_entry(kept[i])]]

\* A faulty variant of history_to_messages that projects the history as it
\* was before its last entry was appended.
history_to_messages_stale(entries) ==
    [i \in 1..(IF Len(entries) > 2 THEN Len(entries) - 1 ELSE Len(entries)) |->
        [role |-> message_role(entries[i]), content |-> extract_text_for_entry(entries[i])]]

\* Agent._history_to_messages
history_to_messages(entries) ==
    [i \in 1..Len(entries) |->
        [role |-> message_role(entries[i]), content |-> extract_text_for_entry(entries[i])]]

(***************************************************************************)
(* The execute of the tools the responses call.  What a call finds on disk  *)
(* is the environment's choice: ToolOutcomes is the set of the ways the     *)
(* call can end, each a returned value or an exception.                     *)
(***************************************************************************)
Returned(result) == [exc |-> NoExc, result |-> result]

Raised(kind, msg) == [exc |-> Exc(kind, msg), result |-> PyNone]

OkResult(data) == PyDict(<<KV("ok", PyBool(TRUE)), KV("data", data), KV("error", PyNone)>>)

FailResult(msg) ==
    PyDict(<<KV("ok", PyBool(FALSE)), KV("data", PyNone), KV("error", PyStr(msg))>>)

ToolOutcomes(name, input) ==
    LET path == DictGet(input, "path", PyStr("."))
    IN  CASE name = "npm.init" ->
               \* open() is outside the try of NPMInitTool.execute.
               { Returned(OkResult(PyDict(<<KV("stdout", PyStr("")), KV("stderr", PyStr("")),
                                            KV("return_code", PyInt(0)),
                                            KV("message", PyStr("Server initialized"))>>))),
                 Raised("PermissionError", "[Errno 13] Permission denied: 'package.json'") }
          [] name = "fs.read" ->
               { Returned(OkResult(PyDict(<<KV("path", path), KV("content", PyStr("hi")),
                                            KV("size", PyInt(2)), KV("line_count", PyInt(1))>>))),
                 Returned(FailResult("File not found: " \o py_str(path))) }
          [] name = "fs.write" ->
               { Returned(OkResult(PyDict(<<KV("path", path), KV("bytes", PyInt(2))>>))),
                 Returned(FailResult("Path is protected")) }
          [] name = "fs.delete" ->
               { Returned(OkResult(PyDict(<<KV("deleted", path)>>))),
                 Returned(FailResult("File not found: " \o py_str(path))) }
          [] OTHER -> { Returned(FailResult("not called by the responses of the model")) }

(***************************************************************************)
(* Agent.execute_tool.  The value is what the call does: the exception that *)
(* leaves it (exc), or the ToolCallResult it appends and returns (tcr),     *)
(* whether tool.execute was called, and the line it logs.                   *)
(***************************************************************************)
Disposition(exc, tcr, executed, line) ==
    [exc |-> exc, tcr |-> tcr, executed |-> executed, line |-> line]

NoEntry == ToolCallResult(PyNone, PyNone, PyNone, PyNone)

\* A faulty variant of MissingTool that only sees an absent name, not an empty one.
MissingToolOnlyNone(tool_name) == tool_name.ty = "NoneType"

\* "not tool_name"
MissingTool(tool_name) == ~Truthy(tool_name)

\* A faulty variant of UnknownToolError that does not name the tool.
UnknownToolErrorUnnamed(tool_name) == "Unknown tool"

\* f"Unknown tool: {tool_name}"
UnknownToolError(tool_name) == "Unknown tool: " \o py_str(tool_name)

\* The name the tool is looked up under, and its schema once found.
ToolName(tool_call) == DictGet(tool_call, "tool", PyNone)

ToolArguments(tool_call) == DictGet(tool_call, "arguments", PyDict(<<>>))

\* A faulty variant of execute_tool that calls the tool's execute whatever
\* the name and the arguments are.
execute_tool_unchecked(tools, tool_call, out) ==
    IF tool_call.ty # "dict"
    THEN Disposition(Exc("AttributeError", "'" \o tool_call.ty \o "' object has no attribute 'get'"),
                     NoEntry, FALSE, "")
    ELSE IF out.exc.raised
    THEN Disposition(NoExc,
           ToolCallResult(ToolName(tool_call), ToolArguments(tool_call), PyNone,
                          PyStr(out.exc.kind \o ": " \o out.exc.msg)),
           TRUE, "[Tool ERR] " \o out.exc.kind \o ": " \o out.exc.msg)
    ELSE Disposition(NoExc,
           ToolCallResult(ToolName(tool_call), ToolArguments(tool_call), out.result, PyNone),
           TRUE, "[Tool OK]")

\* Agent.execute_tool(tool_call); out is the way tool.execute ends if it is
\* called.
execute_tool(tools, tool_call, out) ==
    IF tool_call.ty # "dict"
    THEN Disposition(Exc("AttributeError", "'" \o tool_call.ty \o "' object has no attribute 'get'"),
                     NoEntry, FALSE, "")
    ELSE LET tool_name == ToolName(tool_call)
             arguments == ToolArguments(tool_call)
             found == get_tool_raises(tools, tool_name)
         IN  IF MissingTool(tool_name)
             THEN Disposition(NoExc,
                    ToolCallResult(PyStr("(missing)"), arguments, PyNone,
                                   PyStr("Missing 'tool' in tool_call")),
                    FALSE, "[Tool ERR] missing tool name in tool_call")
             ELSE IF found.raised /\ found.kind # "KeyError"
             THEN Disposition(found, NoEntry, FALSE, "")
             ELSE IF found.raised
             THEN Disposition(NoExc,
                    ToolCallResult(tool_name, arguments, PyNone, PyStr(UnknownToolError(tool_name))),
                    FALSE, "[Tool ERR] Unknown tool: " \o py_str(tool_name))
             ELSE LET valid == SchemaValidate(tools[tool_name.s].schema, arguments)
                  IN  IF valid.raised
                      THEN Disposition(NoExc,
                             ToolCallResult(tool_name, arguments, PyNone,
                                            PyStr("Invalid arguments: " \o valid.msg)),
                             FALSE,
                             "[Tool ERR] " \o py_str(tool_name) \o " invalid args: " \o valid.msg)
                      ELSE IF out.exc.raised
                      THEN Disposition(NoExc,
                             ToolCallResult(tool_name, arguments, PyNone,
                                            PyStr(out.exc.kind \o ": " \o out.exc.msg)),
                             TRUE,
                             "[Tool ERR] " \o py_str(tool_name) \o " -> "
                                 \o out.exc.kind \o ": " \o out.exc.msg)
                      ELSE Disposition(NoExc,
                             ToolCallResult(tool_name, arguments, out.result, PyNone),
                             TRUE,
                             "[Tool OK] " \o py_str(tool_name) \o " -> " \o py_str(out.result))

\* The ways the execute of the tool a call object names can end; one
\* placeholder when execute_tool does not get as far as calling it.
OutcomesFor(tools, tool_call) ==
    IF /\ tool_call.ty = "dict"
       /\ ~MissingTool(ToolName(tool_call))
       /\ ~get_tool_raises(tools, ToolName(tool_call)).raised
       /\ ~SchemaValidate(tools[ToolName(tool_call).s].schema, ToolArguments(tool_call)).raised
    THEN ToolOutcomes(ToolName(tool_call).s, ToolArguments(tool_call))
    ELSE { Returned(PyNone) }

(***************************************************************************)
(* The state of a run of Agent.run.                                         *)
(***************************************************************************)
VARIABLES
    pc,             \* where Agent.run is
    config,         \* .waa/config.json: max_turns, allowed_tools, llm_type
    files,          \* which files of .waa exist: config, log, instruction
    max_turns,      \* Agent.max_turns
    tool_registry,  \* Agent.tool_registry.tools: name -> tool
    tool_init,      \* how the initialize of each discovered tool ended, if called
    all_tools,      \* the tool instances discovered in the tool modules, in order
    init_calls,     \* the number of tool.initialize calls made
    history,        \* Agent.history
    turn,           \* the loop variable of Agent.run
    resp_text,      \* the response of the current turn, as segments
    responses,      \* the responses of the backend so far, as segments
    messages,       \* the messages of the last call of llm.generate
    llm_calls,      \* the calls of llm.generate
    exec_calls,     \* the calls of a tool's execute
    log,            \* the messages Agent passes to Logger.log
    error           \* the exception that left Agent.run

vars == <<pc, config, files, max_turns, tool_registry, tool_init, all_tools, init_calls, history, turn, resp_text,
          responses, messages, llm_calls, exec_calls, log, error>>

\* The largest max_turns a configuration of the model sets.
MaxTurns == 2

SystemText == "You are WAA (Web-App Agent). Follow this protocol EXACTLY."

InstructionText == "create index.html"

\* allowed_tools of the configuration: absent (None), or a list of names.
AllowAll == [configured |-> FALSE, names |-> {}]

AllowOnly(names) == [configured |-> TRUE, names |-> names]

AllowLists == {AllowAll, AllowOnly({"fs.read", "fs.write", "npm.init"})}

\* The value of the key "server" of the configuration: absent, or present
\* with a value that is no mapping.
ServerAbsent == [present |-> FALSE, value |-> PyNone]

ServerConfigs == {ServerAbsent, [present |-> TRUE, value |-> PyInt(5)]}

\* No initialize was called on the discovered tools.
NotInitialized == [n \in ToolNames |-> "no"]

NoTools == [n \in {} |-> Tool("", <<>>)]

\* The lines of .waa/agent.log that an earlier run left behind.
PriorLog == <<"Agent initialization started", "Terminate at turn 1">>

Init ==
    /\ pc = "initialize_environment"
    /\ config \in [max_turns : -1..MaxTurns, allowed_tools : AllowLists,
                   llm_type : {"mock", "gpt"}, server : ServerConfigs]
    /\ files \in [config : BOOLEAN, log : BOOLEAN, instruction : BOOLEAN]
    /\ max_turns = 0
    /\ tool_registry = NoTools
    /\ tool_init = NotInitialized
    /\ all_tools = AllTools
    /\ init_calls = 0
    /\ history = <<>>
    /\ turn = 0
    /\ resp_text = <<>>
    /\ responses = <<>>
    /\ messages = <<>>
    /\ llm_calls = 0
    /\ exec_calls = 0
    /\ log = (IF files.log THEN PriorLog ELSE <<>>)
    /\ error = NoExc

\* An exception leaves Agent.run.
Abort(exc) == pc' = "Raised" /\ error' = exc

(***************************************************************************)
(* The startup of Agent.run.                                                *)
(***************************************************************************)
InitializeEnvironment ==
    /\ pc = "initialize_environment"
    /\ files.config
    /\ max_turns' = config.max_turns
    /\ pc' = "initialize_llm"
    /\ UNCHANGED <<config, files, tool_registry, tool_init, init_calls, all_tools, history, turn, resp_text, responses, messages,
                   llm_calls, exec_calls, log, error>>

InitializeEnvironmentFails ==
    /\ pc = "initialize_environment"
    /\ ~files.config
    /\ Abort(Exc("FileNotFoundError", "Config file not found: .waa/config.json"))
    /\ UNCHANGED <<config, files, max_turns, tool_registry, tool_init, init_calls, all_tools, history, turn, resp_text, responses,
                   messages, llm_calls, exec_calls, log>>

InitializeLLM ==
    /\ pc = "initialize_llm"
    /\ config.llm_type = "mock"
    /\ pc' = "initialize_logger"
    /\ UNCHANGED <<config, files, max_turns, tool_registry, tool_init, init_calls, all_tools, history, turn, resp_text, responses,
                   messages, llm_calls, exec_calls, log, error>>

InitializeLLMFails ==
    /\ pc = "initialize_llm"
    /\ config.llm_type # "mock"
    /\ Abort(Exc("ValueError",
                 "Unknown llm_type: " \o config.llm_type \o ". Use 'gemini' or 'mock'."))
    /\ UNCHANGED <<config, files, max_turns, tool_registry, tool_init, init_calls, all_tools, history, turn, resp_text, responses,
                   messages, llm_calls, exec_calls, log>>

\* The lines initialize_logger writes after Logger.__init__ has opened the
\* file with mode 'w', which drops what the file held.
LoggerLines ==
    <<"Agent initialization started", "Working directory: .",
      "Debug mode: False", "Max turns: " \o ToString(max_turns)>>

\* A faulty variant of InitializeLoggerFails: the existing log is opened
\* and written over.
InitializeLoggerOverwrites ==
    /\ pc = "initialize_logger"
    /\ files.log
    /\ log' = LoggerLines
    /\ pc' = "initialize_tool_registry"
    /\ UNCHANGED <<config, files, max_turns, tool_registry, tool_init, init_calls, all_tools, history, turn, resp_text,
                   responses, messages, llm_calls, exec_calls, error>>

\* A faulty variant of InitializeLoggerFails: the existing log is opened for
\* appending and the startup goes on.
InitializeLoggerAppends ==
    /\ pc = "initialize_logger"
    /\ files.log
    /\ log' = log \o LoggerLines
    /\ pc' = "initialize_tool_registry"
    /\ UNCHANGED <<config, files, max_turns, tool_registry, tool_init, init_calls, all_tools, history, turn, resp_text,
                   responses, messages, llm_calls, exec_calls, error>>

\* Logger.__init__ creates the log file.
InitializeLogger ==
    /\ pc = "initialize_logger"
    /\ ~files.log
    /\ files' = [files EXCEPT !.log = TRUE]
    /\ log' = LoggerLines
    /\ pc' = "initialize_tool_registry"
    /\ UNCHANGED <<config, max_turns, tool_registry, tool_init, init_calls, all_tools, history, turn, resp_text, responses, messages,
                   llm_calls, exec_calls, error>>

InitializeLoggerFails ==
    /\ pc = "initialize_logger"
    /\ files.log
    /\ Abort(Exc("RuntimeError",
                 "Log file already exists: .waa/agent.log. Remove it to start a new run."))
    /\ UNCHANGED <<config, files, max_turns, tool_registry, tool_init, init_calls, all_tools, history, turn, resp_text, responses,
                   messages, llm_calls, exec_calls, log>>

\* A faulty variant of Allowed: the allow-list is ignored.
AllowedAlways(allowed_tools, name) == TRUE

\* The loop over all_tools: a tool the allow-list leaves out is skipped, the
\* others are initialized and registered.
Allowed(allowed_tools, name) == ~allowed_tools.configured \/ name \in allowed_tools.names

\* env.get_config_value("server.timeout") raises: "timeout" in <value> when
\* the value of "server" is no container.
get_config_value_raises(cfg) == cfg.server.present /\ ContainsRaises(cfg.server.value)

\* tool.initialize(self.env) raises: the initialize of the tools of
\* waa.tools.server reads "server.timeout", after it has set main_folder.
ServerTools == {"npm.init", "npm.logs", "npm.start", "npm.status", "npm.stop"}

initialize_raises(tool, cfg) == tool.name \in ServerTools /\ get_config_value_raises(cfg)

\* A faulty variant of RegisterAll: a tool whose initialize raises is left
\* out of the registry.
RECURSIVE RegisterAllFailClosed(_, _, _)
RegisterAllFailClosed(tools, candidates, cfg) ==
    IF Len(candidates) = 0 THEN tools
    ELSE RegisterAllFailClosed(
             IF /\ Allowed(cfg.allowed_tools, Head(candidates).name)
                /\ ~initialize_raises(Head(candidates), cfg)
             THEN register_tool(tools, Head(candidates))
             ELSE tools,
             Tail(candidates), cfg)

\* The except around tool.initialize only logs: the tool is registered
\* whether its initialize returned or raised.
RECURSIVE RegisterAll(_, _, _)
RegisterAll(tools, candidates, cfg) ==
    IF Len(candidates) = 0 THEN tools
    ELSE RegisterAll(IF ~Allowed(cfg.allowed_tools, Head(candidates).name)
                     THEN tools
                     ELSE IF initialize_raises(Head(candidates), cfg)
                     THEN register_tool(tools, Head(candidates))
                     ELSE register_tool(tools, Head(candidates)),
                     Tail(candidates), cfg)

\* How the initialize of each discovered tool ended: "no" when it was not
\* called.
InitializeAll(candidates, cfg) ==
    [n \in ToolNames |->
        IF \E i \in 1..Len(candidates) :
              candidates[i].name = n /\ Allowed(cfg.allowed_tools, n)
        THEN IF initialize_raises(Tool(n, <<>>), cfg) THEN "raised" ELSE "returned"
        ELSE "no"]

\* A faulty variant of InitializeCount: initialize is called on every
\* discovered tool, skipped or not.
RECURSIVE InitializeCountAll(_, _)
InitializeCountAll(candidates, cfg) ==
    IF Len(candidates) = 0 THEN 0 ELSE 1 + InitializeCountAll(Tail(candidates), cfg)

\* The number of tool.initialize calls of the loop: one for each candidate
\* that is not skipped.
RECURSIVE InitializeCount(_, _)
InitializeCount(candidates, cfg) ==
    IF Len(candidates) = 0 THEN 0
    ELSE (IF Allowed(cfg.allowed_tools, Head(candidates).name) THEN 1 ELSE 0)
         + InitializeCount(Tail(candidates), cfg)

RECURSIVE RegistryLog(_, _)
RegistryLog(candidates, cfg) ==
    IF Len(candidates) = 0 THEN <<>>
    ELSE (IF ~Allowed(cfg.allowed_tools, Head(candidates).name)
          THEN <<"Skipped tool (not allowed): " \o Head(candidates).name>>
          ELSE IF initialize_raises(Head(candidates), cfg)
          THEN <<"Tool initialize failed: " \o Head(candidates).name \o ": "
                    \o ContainsError(cfg.server.value).msg,
                 "Registered tool: " \o Head(candidates).name>>
          ELSE <<"Registered tool: " \o Head(candidates).name>>)
         \o RegistryLog(Tail(candidates), cfg)

InitializeToolRegistry ==
    /\ pc = "initialize_tool_registry"
    /\ tool_registry' = RegisterAll(NoTools, all_tools, config)
    /\ tool_init' = InitializeAll(all_tools, config)
    /\ init_calls' = InitializeCount(all_tools, config)
    /\ log' = log \o RegistryLog(all_tools, config)
    /\ pc' = "load_system_prompt"
    /\ UNCHANGED <<config, files, max_turns, all_tools, history, turn, resp_text, responses,
                   messages, llm_calls, exec_calls, error>>

LoadSystemPrompt ==
    /\ pc = "load_system_prompt"
    /\ history' = Append(history, SystemPrompt(SystemText))
    /\ log' = Append(log, "System prompt loaded into history")
    /\ pc' = "load_instruction"
    /\ UNCHANGED <<config, files, max_turns, tool_registry, tool_init, init_calls, all_tools, turn, resp_text, responses, messages,
                   llm_calls, exec_calls, error>>

\* A faulty variant of LoadInstruction that puts the instruction before the
\* system prompt.
LoadInstructionPrepends ==
    /\ pc = "load_instruction"
    /\ files.instruction
    /\ history' = <<UserInstruction(InstructionText)>> \o history
    /\ log' = Append(log, "User instruction loaded into history")
    /\ pc' = "loop"
    /\ UNCHANGED <<config, files, max_turns, tool_registry, tool_init, init_calls, all_tools, turn, resp_text, responses, messages,
                   llm_calls, exec_calls, error>>

LoadInstruction ==
    /\ pc = "load_instruction"
    /\ files.instruction
    /\ history' = Append(history, UserInstruction(InstructionText))
    /\ log' = Append(log, "User instruction loaded into history")
    /\ pc' = "loop"
    /\ UNCHANGED <<config, files, max_turns, tool_registry, tool_init, init_calls, all_tools, turn, resp_text, responses, messages,
                   llm_calls, exec_calls, error>>

\* A faulty variant of LoadInstructionFails that removes the log of the
\* failed startup.
LoadInstructionFailsCleansUp ==
    /\ pc = "load_instruction"
    /\ ~files.instruction
    /\ files' = [files EXCEPT !.log = FALSE]
    /\ log' = <<>>
    /\ Abort(Exc("FileNotFoundError", "Instruction file not found: .waa/instruction.md"))
    /\ UNCHANGED <<config, max_turns, tool_registry, tool_init, init_calls, all_tools, history, turn, resp_text, responses,
                   messages, llm_calls, exec_calls>>

LoadInstructionFails ==
    /\ pc = "load_instruction"
    /\ ~files.instruction
    /\ Abort(Exc("FileNotFoundError", "Instruction file not found: .waa/instruction.md"))
    /\ UNCHANGED <<config, files, max_turns, tool_registry, tool_init, init_calls, all_tools, history, turn, resp_text, responses,
                   messages, llm_calls, exec_calls, log>>

(***************************************************************************)
(* The loop of Agent.run: for turn in range(1, max_turns + 1).              *)
(***************************************************************************)
\* The response text holds a tool-call wrapper.
Wrapper(segs) == tool_pat_search(segs).start # 0

\* A faulty variant of QueryLLM that tests the turn count after the body of
\* the loop, so that the first turn always runs.
QueryLLMAtLeastOnce ==
    /\ pc = "loop"
    /\ turn < max_turns \/ turn = 0
    /\ \E r \in Responses :
         /\ resp_text' = r
         /\ responses' = Append(responses, r)
         /\ history' = Append(history, LLMResponse(Render(r)))
    /\ turn' = turn + 1
    /\ messages' = history_to_messages(history)
    /\ llm_calls' = llm_calls + 1
    /\ pc' = "respond"
    /\ UNCHANGED <<config, files, max_turns, tool_registry, tool_init, init_calls, all_tools, exec_calls, log, error>>


\* Agent.query_llm: the history is projected, the backend answers, and the
\* answer is appended.
QueryLLM ==
    /\ pc = "loop"
    /\ turn < max_turns
    /\ \E r \in Responses :
         /\ resp_text' = r
         /\ responses' = Append(responses, r)
         /\ history' = Append(history, LLMResponse(Render(r)))
    /\ turn' = turn + 1
    /\ messages' = history_to_messages(history)
    /\ llm_calls' = llm_calls + 1
    /\ pc' = "respond"
    /\ UNCHANGED <<config, files, max_turns, tool_registry, tool_init, init_calls, all_tools, exec_calls, log, error>>

\* A faulty variant of QueryLLMRaises that records the error of the backend
\* as a tool result and goes on with the loop.
QueryLLMRaisesRecorded ==
    /\ pc = "loop"
    /\ turn < max_turns
    /\ turn' = turn + 1
    /\ messages' = history_to_messages(history)
    /\ llm_calls' = llm_calls + 1
    /\ history' = Append(history, ToolCallResult(PyStr("(llm_error)"), PyDict(<<>>), PyNone,
                                                 PyStr("RuntimeError: Gemini API error")))
    /\ pc' = "loop"
    /\ UNCHANGED <<config, files, max_turns, tool_registry, tool_init, init_calls, all_tools, resp_text, responses,
                   exec_calls, log, error>>

\* llm.generate raises: nothing in Agent.run catches it.
QueryLLMRaises ==
    /\ pc = "loop"
    /\ turn < max_turns
    /\ turn' = turn + 1
    /\ messages' = history_to_messages(history)
    /\ llm_calls' = llm_calls + 1
    /\ Abort(Exc("RuntimeError", "Gemini API error"))
    /\ UNCHANGED <<config, files, max_turns, tool_registry, tool_init, init_calls, all_tools, history, resp_text, responses,
                   exec_calls, log>>

\* The else of the for loop: every turn was used.
Exhaust ==
    /\ pc = "loop"
    /\ turn >= max_turns
    /\ log' = Append(log, "Reached max_turns=" \o ToString(max_turns) \o " without termination.")
    /\ pc' = "Exhausted"
    /\ UNCHANGED <<config, files, max_turns, tool_registry, tool_init, init_calls, all_tools, history, turn, resp_text, responses,
                   messages, llm_calls, exec_calls, error>>

\* A faulty variant of Terminate that goes on with the next turn.
TerminateIgnored ==
    /\ pc = "respond"
    /\ is_termination(resp_text)
    /\ pc' = "loop"
    /\ UNCHANGED <<config, files, max_turns, tool_registry, tool_init, init_calls, all_tools, history, turn, resp_text,
                   responses, messages, llm_calls, exec_calls, log, error>>

\* A faulty variant of Terminate in which the else of the for loop also runs
\* after the break of the last turn.
TerminateThenExhaust ==
    /\ pc = "respond"
    /\ is_termination(resp_text)
    /\ IF turn = max_turns
       THEN /\ log' = log \o <<"Terminate at turn " \o ToString(turn),
                                "Reached max_turns=" \o ToString(max_turns)
                                    \o " without termination.">>
            /\ pc' = "Exhausted"
       ELSE /\ log' = Append(log, "Terminate at turn " \o ToString(turn))
            /\ pc' = "Terminated"
    /\ UNCHANGED <<config, files, max_turns, tool_registry, tool_init, init_calls, all_tools, history, turn, resp_text, responses,
                   messages, llm_calls, exec_calls, error>>

\* if "<terminate>" in resp_text: break
Terminate ==
    /\ pc = "respond"
    /\ is_termination(resp_text)
    /\ log' = Append(log, "Terminate at turn " \o ToString(turn))
    /\ pc' = "Terminated"
    /\ UNCHANGED <<config, files, max_turns, tool_registry, tool_init, init_calls, all_tools, history, turn, resp_text, responses,
                   messages, llm_calls, exec_calls, error>>

\* The error text of the parse-failure entry.
ParseError(exc) == "Invalid tool_call JSON: " \o exc.kind \o ": " \o exc.msg

\* A faulty variant of ParseFailure that records the whole response text.
ParseFailureWholeText ==
    /\ pc = "respond"
    /\ ~is_termination(resp_text)
    /\ Wrapper(resp_text)
    /\ LET json_str == group1_strip(resp_text)
           parsed == json_loads(json_str)
       IN  /\ parsed.exc.raised
           /\ history' = Append(history,
                  ToolCallResult(PyStr("(parse_error)"),
                                 PyDict(<<KV("raw", PyStr(Render(resp_text)))>>),
                                 PyStr(""), PyStr(ParseError(parsed.exc))))
           /\ log' = Append(log, ParseError(parsed.exc))
    /\ pc' = "loop"
    /\ UNCHANGED <<config, files, max_turns, tool_registry, tool_init, init_calls, all_tools, turn, resp_text, responses, messages,
                   llm_calls, exec_calls, error>>

\* A faulty variant of ParseFailure in which the JSONDecodeError leaves the loop.
ParseFailureRaises ==
    /\ pc = "respond"
    /\ ~is_termination(resp_text)
    /\ Wrapper(resp_text)
    /\ json_loads(group1_strip(resp_text)).exc.raised
    /\ Abort(json_loads(group1_strip(resp_text)).exc)
    /\ UNCHANGED <<config, files, max_turns, tool_registry, tool_init, init_calls, all_tools, history, turn, resp_text, responses,
                   messages, llm_calls, exec_calls, log>>

\* A faulty variant of ParseFailure that puts the parse-failure entry in the
\* place of the response it answers.
ParseFailureReplaces ==
    /\ pc = "respond"
    /\ ~is_termination(resp_text)
    /\ Wrapper(resp_text)
    /\ LET json_str == group1_strip(resp_text)
           parsed == json_loads(json_str)
       IN  /\ parsed.exc.raised
           /\ history' = [history EXCEPT ![Len(history)] =
                  ToolCallResult(PyStr("(parse_error)"),
                                 PyDict(<<KV("raw", PyStr(Render(json_str)))>>),
                                 PyStr(""), PyStr(ParseError(parsed.exc)))]
           /\ log' = Append(log, ParseError(parsed.exc))
    /\ pc' = "loop"
    /\ UNCHANGED <<config, files, max_turns, tool_registry, tool_init, init_calls, all_tools, turn, resp_text, responses, messages,
                   llm_calls, exec_calls, error>>

\* json.loads raises: the parse-failure entry is appended; continue.
ParseFailure ==
    /\ pc = "respond"
    /\ ~is_termination(resp_text)
    /\ Wrapper(resp_text)
    /\ LET json_str == group1_strip(resp_text)
           parsed == json_loads(json_str)
       IN  /\ parsed.exc.raised
           /\ history' = Append(history,
                  ToolCallResult(PyStr("(parse_error)"),
                                 PyDict(<<KV("raw", PyStr(Render(json_str)))>>),
                                 PyStr(""), PyStr(ParseError(parsed.exc))))
           /\ log' = Append(log, ParseError(parsed.exc))
    /\ pc' = "loop"
    /\ UNCHANGED <<config, files, max_turns, tool_registry, tool_init, init_calls, all_tools, turn, resp_text, responses, messages,
                   llm_calls, exec_calls, error>>

\* A faulty variant of Dispatch that calls initialize again on the tool it
\* is about to execute.
DispatchReinitializes ==
    /\ pc = "respond"
    /\ ~is_termination(resp_text)
    /\ Wrapper(resp_text)
    /\ LET parsed == json_loads(group1_strip(resp_text))
       IN  /\ ~parsed.exc.raised
           /\ \E out \in OutcomesFor(tool_registry, parsed.val) :
                LET d == execute_tool(tool_registry, parsed.val, out)
                IN  /\ ~d.exc.raised
                    /\ history' = Append(history, d.tcr)
                    /\ exec_calls' = exec_calls + (IF d.executed THEN 1 ELSE 0)
                    /\ init_calls' = init_calls + (IF d.executed THEN 1 ELSE 0)
                    /\ log' = Append(log, d.line)
    /\ pc' = "loop"
    /\ UNCHANGED <<config, files, max_turns, tool_registry, tool_init, all_tools, turn, resp_text,
                   responses, messages, llm_calls, error>>

\* A faulty variant of Dispatch that drops from the registry a tool whose
\* execute raised.
DispatchUnregisters ==
    /\ pc = "respond"
    /\ ~is_termination(resp_text)
    /\ Wrapper(resp_text)
    /\ LET parsed == json_loads(group1_strip(resp_text))
       IN  /\ ~parsed.exc.raised
           /\ \E out \in OutcomesFor(tool_registry, parsed.val) :
                LET d == execute_tool(tool_registry, parsed.val, out)
                IN  /\ ~d.exc.raised
                    /\ history' = Append(history, d.tcr)
                    /\ exec_calls' = exec_calls + (IF d.executed THEN 1 ELSE 0)
                    /\ log' = Append(log, d.line)
                    /\ tool_registry' =
                          IF d.executed /\ out.exc.raised
                          THEN [n \in DOMAIN tool_registry \ {d.tcr.tool_name.s} |->
                                   tool_registry[n]]
                          ELSE tool_registry
    /\ pc' = "loop"
    /\ UNCHANGED <<config, files, max_turns, tool_init, init_calls, all_tools, turn, resp_text, responses, messages,
                   llm_calls, error>>

\* A faulty variant of Dispatch that calls execute a second time when the
\* first call raised.
DispatchRetries ==
    /\ pc = "respond"
    /\ ~is_termination(resp_text)
    /\ Wrapper(resp_text)
    /\ LET parsed == json_loads(group1_strip(resp_text))
       IN  /\ ~parsed.exc.raised
           /\ \E out \in OutcomesFor(tool_registry, parsed.val) :
                LET d == execute_tool(tool_registry, parsed.val, out)
                IN  /\ ~d.exc.raised
                    /\ history' = Append(history, d.tcr)
                    /\ exec_calls' = exec_calls + (IF ~d.executed THEN 0
                                                   ELSE IF out.exc.raised THEN 2 ELSE 1)
                    /\ log' = Append(log, d.line)
    /\ pc' = "loop"
    /\ UNCHANGED <<config, files, max_turns, tool_registry, tool_init, init_calls, all_tools, turn, resp_text, responses, messages,
                   llm_calls, error>>

\* self.execute_tool(call_obj) returns; continue.
Dispatch ==
    /\ pc = "respond"
    /\ ~is_termination(resp_text)
    /\ Wrapper(resp_text)
    /\ LET parsed == json_loads(group1_strip(resp_text))
       IN  /\ ~parsed.exc.raised
           /\ \E out \in OutcomesFor(tool_registry, parsed.val) :
                LET d == execute_tool(tool_registry, parsed.val, out)
                IN  /\ ~d.exc.raised
                    /\ history' = Append(history, d.tcr)
                    /\ exec_calls' = exec_calls + (IF d.executed THEN 1 ELSE 0)
                    /\ log' = Append(log, d.line)
    /\ pc' = "loop"
    /\ UNCHANGED <<config, files, max_turns, tool_registry, tool_init, init_calls, all_tools, turn, resp_text, responses, messages,
                   llm_calls, error>>

\* self.execute_tool(call_obj) raises: nothing in Agent.run catches it.
DispatchRaises ==
    /\ pc = "respond"
    /\ ~is_termination(resp_text)
    /\ Wrapper(resp_text)
    /\ LET parsed == json_loads(group1_strip(resp_text))
       IN  /\ ~parsed.exc.raised
           /\ \E out \in OutcomesFor(tool_registry, parsed.val) :
                LET d == execute_tool(tool_registry, parsed.val, out)
                IN  /\ d.exc.raised
                    /\ Abort(d.exc)
                    /\ exec_calls' = exec_calls + (IF d.executed THEN 1 ELSE 0)
    /\ UNCHANGED <<config, files, max_turns, tool_registry, tool_init, init_calls, all_tools, history, turn, resp_text, responses,
                   messages, llm_calls, log>>

\* A faulty variant of ProtocolViolation that answers the model and goes on.
ProtocolViolationCorrected ==
    /\ pc = "respond"
    /\ ~is_termination(resp_text)
    /\ ~Wrapper(resp_text)
    /\ history' = Append(history,
           ToolCallResult(PyStr("(protocol)"), PyNone, PyNone, PyStr("No tool_call or terminate")))
    /\ pc' = "loop"
    /\ UNCHANGED <<config, files, max_turns, tool_registry, tool_init, init_calls, all_tools, turn, resp_text, responses, messages,
                   llm_calls, exec_calls, log, error>>

\* Neither the marker nor a wrapper: break.
ProtocolViolation ==
    /\ pc = "respond"
    /\ ~is_termination(resp_text)
    /\ ~Wrapper(resp_text)
    /\ log' = Append(log, "LLM output had no <tool_call> or <terminate>. Stopping.")
    /\ pc' = "ProtocolViolated"
    /\ UNCHANGED <<config, files, max_turns, tool_registry, tool_init, init_calls, all_tools, history, turn, resp_text, responses,
                   messages, llm_calls, exec_calls, error>>

Next ==
    \/ InitializeEnvironment
    \/ InitializeEnvironmentFails
    \/ InitializeLLM
    \/ InitializeLLMFails
    \/ InitializeLogger
    \/ InitializeLoggerFails
    \/ InitializeToolRegistry
    \/ LoadSystemPrompt
    \/ LoadInstruction
    \/ LoadInstructionFails
    \/ QueryLLM
    \/ QueryLLMRaises
    \/ Exhaust
    \/ Terminate
    \/ ParseFailure
    \/ Dispatch
    \/ DispatchRaises
    \/ ProtocolViolation

Spec == Init /\ [][Next]_vars

(***************************************************************************)
(* The loop of Agent.run on its own: the startup is done, the history is    *)
(* [SystemPrompt, UserInstruction], and the model has answered turn 1 with  *)
(* a valid fs.write call.  One turn more than MaxTurns is allowed.          *)
(***************************************************************************)
ScenarioTurns == MaxTurns + 1

ScenarioInit ==
    /\ pc = "respond"
    /\ config = [max_turns |-> ScenarioTurns, allowed_tools |-> AllowAll,
                 llm_type |-> "mock", server |-> ServerAbsent]
    /\ files = [config |-> TRUE, log |-> TRUE, instruction |-> TRUE]
    /\ max_turns = ScenarioTurns
    /\ tool_registry = RegisterAll(NoTools, AllTools, config)
    /\ tool_init = InitializeAll(AllTools, config)
    /\ all_tools = AllTools
    /\ init_calls = InitializeCount(AllTools, config)
    /\ resp_text = Wrapped(DocWrite)
    /\ responses = <<Wrapped(DocWrite)>>
    /\ history = <<SystemPrompt(SystemText), UserInstruction(InstructionText),
                   LLMResponse(Render(Wrapped(DocWrite)))>>
    /\ messages = history_to_messages(<<SystemPrompt(SystemText),
                                        UserInstruction(InstructionText)>>)
    /\ turn = 1
    /\ llm_calls = 1
    /\ exec_calls = 0
    /\ log = LoggerLines \o RegistryLog(AllTools, config)
                \o <<"System prompt loaded into history",
                     "User instruction loaded into history">>
    /\ error = NoExc

ScenarioNext ==
    \/ QueryLLM
    \/ QueryLLMRaises
    \/ Exhaust
    \/ Terminate
    \/ ParseFailure
    \/ Dispatch
    \/ DispatchRaises
    \/ ProtocolViolation

ScenarioSpec == ScenarioInit /\ [][ScenarioNext]_vars

(***************************************************************************)
(* The registration loop as a function of the list of discovered tools:     *)
(* Init draws the list, with tools that share a name, and the one action    *)
(* builds the registry from it.                                             *)
(***************************************************************************)
MaxRegistered == 3

\* Tool instances, two of them with the name fs.read and different schemas.
CandidateTools ==
    { Tool("fs.read", <<>>),
      Tool("fs.read", <<ToolArgument("path", TRUE, "str")>>),
      Tool("fs.write", <<>>),
      Tool("fs.delete", <<ToolArgument("path", TRUE, "str")>>) }

RegistryInit ==
    /\ pc = "initialize_tool_registry"
    /\ config \in [max_turns : {1}, allowed_tools : AllowLists, llm_type : {"mock"},
                   server : {ServerAbsent}]
    /\ files = [config |-> TRUE, log |-> TRUE, instruction |-> TRUE]
    /\ max_turns = 1
    /\ tool_registry = NoTools
    /\ tool_init = NotInitialized
    /\ all_tools \in UNION {[1..n -> CandidateTools] : n \in 0..MaxRegistered}
    /\ init_calls = 0
    /\ history = <<>>
    /\ turn = 0
    /\ resp_text = <<>>
    /\ responses = <<>>
    /\ messages = <<>>
    /\ llm_calls = 0
    /\ exec_calls = 0
    /\ log = LoggerLines
    /\ error = NoExc

RegistryNext == InitializeToolRegistry

RegistrySpec == RegistryInit /\ [][RegistryNext]_vars

(***************************************************************************)
(* The read-only tools of waa.tools.fs as functions of the working          *)
(* directory: index.html, which exists or not, and .waa with agent.log,     *)
(* config.json and instruction.md.  The log file holds the lines of log     *)
(* after the header Logger.__init__ writes; time stamps are left out, and   *)
(* st_size of the log is counted in lines, not in characters.               *)
(***************************************************************************)
RECURSIVE JoinLines(_)
JoinLines(lines) ==
    IF Len(lines) = 0 THEN "" ELSE Head(lines) \o "\n" \o JoinLines(Tail(lines))

LogText(lines) == "=== WAA Agent Log ===\nStarted: <now>\n====\n\n" \o JoinLines(lines)

LogSize(lines) == Len(lines) + 4

FileNode(name, size) ==
    PyDict(<<KV("name", PyStr(name)), KV("type", PyStr("file")), KV("size", PyInt(size))>>)

\* sorted(abs_path.iterdir()) of .waa
WaaFiles(wd) ==
    <<FileNode("agent.log", LogSize(wd.log)), FileNode("config.json", 64),
      FileNode("instruction.md", 18)>>

IndexFiles(wd) == IF wd.index THEN <<FileNode("index.html", 2)>> ELSE <<>>

\* _resolve_within raises ValueError for a path that leaves the directory.
OutsidePath(p) == p = "../outside"

\* FileReadTool.execute
fs_read(input, wd) ==
    LET p == DictGet(input, "path", PyNone).s
    IN  IF OutsidePath(p) THEN FailResult("Path is outside working directory")
        ELSE IF p = "index.html" /\ wd.index
        THEN OkResult(PyDict(<<KV("path", PyStr(p)), KV("content", PyStr("hi")),
                               KV("size", PyInt(2)), KV("line_count", PyInt(1))>>))
        ELSE IF p = ".waa/agent.log"
        THEN OkResult(PyDict(<<KV("path", PyStr(p)), KV("content", PyStr(LogText(wd.log))),
                               KV("size", PyInt(LogSize(wd.log))),
                               KV("line_count", PyInt(LogSize(wd.log)))>>))
        ELSE FailResult("File not found: " \o p)

\* DirectoryListTool.execute
fs_ls(input, wd) ==
    LET p == DictGet(input, "path", PyStr(".")).s
    IN  IF OutsidePath(p) THEN FailResult("Path is outside working directory")
        ELSE IF p = "."
        THEN OkResult(PyDict(<<KV("path", PyStr(p)),
                 KV("entries", PyList(<<PyDict(<<KV("name", PyStr(".waa")),
                                                 KV("type", PyStr("dir")),
                                                 KV("size", PyInt(0))>>)>>
                                      \o IndexFiles(wd)))>>))
        ELSE IF p = ".waa"
        THEN OkResult(PyDict(<<KV("path", PyStr(p)), KV("entries", PyList(WaaFiles(wd)))>>))
        ELSE FailResult("Directory not found: " \o p)

\* DirectoryTreeTool.execute, with the default max_depth of 2
fs_tree(input, wd) ==
    LET p == DictGet(input, "path", PyStr(".")).s
    IN  IF OutsidePath(p) THEN FailResult("Path is outside working directory")
        ELSE IF p = "."
        THEN OkResult(PyDict(<<KV("path", PyStr(p)),
                 KV("tree", PyList(<<PyDict(<<KV("name", PyStr(".waa")),
                                              KV("type", PyStr("dir")),
                                              KV("children", PyList(WaaFiles(wd)))>>)>>
                                   \o IndexFiles(wd)))>>))
        ELSE IF p = ".waa"
        THEN OkResult(PyDict(<<KV("path", PyStr(p)), KV("tree", PyList(WaaFiles(wd)))>>))
        ELSE FailResult("Directory not found: " \o p)

\* What the execute of a read-only tool returns in the working directory.
PureOutcome(name, input, wd) ==
    Returned(CASE name = "fs.read" -> fs_read(input, wd)
               [] name = "fs.ls" -> fs_ls(input, wd)
               [] name = "fs.tree" -> fs_tree(input, wd))

(***************************************************************************)
(* execute_tool called again and again with one call object of a read-only  *)
(* tool: Init draws the call and whether index.html exists, and nothing but *)
(* the agent touches the working directory.                                 *)
(***************************************************************************)
MaxRepeats == 3

PureTools == {"fs.read", "fs.ls", "fs.tree"}

RepeatPaths == {"index.html", ".waa/agent.log", ".waa", ".", "../outside", "missing.txt"}

RepeatCalls ==
    {CallObj(PyStr(t), Args1("path", PyStr(p))) : t \in PureTools, p \in RepeatPaths}
    \cup {CallObj(PyStr(t), PyDict(<<>>)) : t \in {"fs.ls", "fs.tree"}}

RepeatInit ==
    /\ pc = "execute_tool"
    /\ config = [max_turns |-> MaxRepeats, allowed_tools |-> AllowAll, llm_type |-> "mock",
                 server |-> ServerAbsent]
    /\ files \in [config : {TRUE}, log : {TRUE}, instruction : {TRUE}, index : BOOLEAN]
    /\ max_turns = MaxRepeats
    /\ tool_registry = RegisterAll(NoTools, AllTools, config)
    /\ tool_init = InitializeAll(AllTools, config)
    /\ all_tools = AllTools
    /\ init_calls = InitializeCount(AllTools, config)
    /\ resp_text \in {Wrapped(c) : c \in RepeatCalls}
    /\ responses = <<>>
    /\ history = <<>>
    /\ messages = <<>>
    /\ turn = 0
    /\ llm_calls = 0
    /\ exec_calls = 0
    /\ log = LoggerLines \o RegistryLog(AllTools, config)
                \o <<"System prompt loaded into history",
                     "User instruction loaded into history">>
    /\ error = NoExc

\* self.execute_tool(call_obj), once more with the same call object.
ExecuteAgain ==
    /\ pc = "execute_tool"
    /\ exec_calls < MaxRepeats
    /\ LET call == json_loads(group1_strip(resp_text)).val
           out == PureOutcome(ToolName(call).s, ToolArguments(call),
                              [index |-> files.index, log |-> log])
           d == execute_tool(tool_registry, call, out)
       IN  /\ history' = Append(history, d.tcr)
           /\ log' = Append(log, d.line)
           /\ exec_calls' = exec_calls + (IF d.executed THEN 1 ELSE 0)
    /\ UNCHANGED <<pc, config, files, max_turns, tool_registry, tool_init, init_calls, all_tools,
                   turn, resp_text, responses, messages, llm_calls, error>>

RepeatNext == ExecuteAgain

RepeatSpec == RepeatInit /\ [][RepeatNext]_vars


(***************************************************************************)
(* src/waa/tools/fs.py on a directory tree.  A location is a resolved path: *)
(* the ones beneath the working directory by their relative form, and two   *)
(* that lie outside it.  The working directory itself always exists; the    *)
(* lines of .waa/agent.log are held by the variable log.                    *)
(***************************************************************************)
OutsideLocs == {"../outside.txt", "/etc/passwd"}

InsideLocs ==
    {".waa", ".waa/agent.log", "index.html", "secrets", "secrets/key.pem", "newdir",
     "newdir/a.txt"}

Locations == InsideLocs \cup OutsideLocs

Absent == [kind |-> "absent", content |-> ""]

Directory == [kind |-> "dir", content |-> ""]

RegularFile(content) == [kind |-> "file", content |-> content]

\* Path.parent, relative to the working directory "."
Parent(l) ==
    CASE l = "secrets/key.pem" -> "secrets"
      [] l = "newdir/a.txt" -> "newdir"
      [] l = ".waa/agent.log" -> ".waa"
      [] OTHER -> "."

\* Path.name
BaseName(l) ==
    CASE l = "secrets/key.pem" -> "key.pem"
      [] l = "newdir/a.txt" -> "a.txt"
      [] l = ".waa/agent.log" -> "agent.log"
      [] OTHER -> l

\* sorted(Path.iterdir()) of a directory of the tree
IterDir(disk, l) ==
    SelectSeq(<<".waa", ".waa/agent.log", "index.html", "newdir", "newdir/a.txt", "secrets",
                "secrets/key.pem">>,
              LAMBDA c : Parent(c) = l /\ disk[c].kind # "absent")

\* Path.stat().st_size of the contents the tree holds
StSize(content) ==
    CASE content = "hi" -> 2
      [] content = "" -> 0
      [] content = "root" -> 4
      [] OTHER -> 3

\* (base_dir / rel_path).resolve(): an absolute path replaces the base, and
\* ".." steps are taken.
resolve(p) ==
    CASE p = "secrets/../../outside.txt" -> "../outside.txt"
      [] p = "secrets/../index.html" -> "index.html"
      [] OTHER -> p

\* A faulty variant of resolve_within that compares the path as written.
resolve_within_unresolved(p) ==
    IF p \in OutsideLocs
    THEN [exc |-> Exc("ValueError", "Path is outside working directory"), loc |-> resolve(p)]
    ELSE [exc |-> NoExc, loc |-> resolve(p)]

\* _resolve_within(base_dir, rel_path)
resolve_within(p) ==
    IF resolve(p) \in OutsideLocs
    THEN [exc |-> Exc("ValueError", "Path is outside working directory"), loc |-> resolve(p)]
    ELSE [exc |-> NoExc, loc |-> resolve(p)]

\* _is_protected(abs_path, protected_paths): the path is a protected one or
\* lies beneath one.
is_protected(l, protected) ==
    \E i \in 1..Len(protected) : l = resolve(protected[i]) \/ Parent(l) = resolve(protected[i])

\* Path.mkdir(parents=True, exist_ok=True)
mkdir_parents(disk, l) ==
    IF l = "." \/ disk[l].kind = "dir"
    THEN [exc |-> NoExc, disk |-> disk]
    ELSE IF disk[l].kind = "file"
    THEN [exc |-> Exc("FileExistsError", "[Errno 17] File exists: '/work/" \o l \o "'"),
          disk |-> disk]
    ELSE IF Parent(l) # "." /\ disk[Parent(l)].kind = "file"
    THEN [exc |-> Exc("NotADirectoryError", "[Errno 20] Not a directory: '/work/" \o l \o "'"),
          disk |-> disk]
    ELSE IF Parent(l) # "."
    THEN [exc |-> NoExc, disk |-> [disk EXCEPT ![Parent(l)] = Directory, ![l] = Directory]]
    ELSE [exc |-> NoExc, disk |-> [disk EXCEPT ![l] = Directory]]

\* What a tool's execute returns and the tree it leaves.
FsReturn(result, disk) == [result |-> result, disk |-> disk]

\* FileCreateTool.execute
FileCreateTool_execute(input, disk, protected) ==
    LET rel == DictGet(input, "path", PyNone).s
        content == DictGet(input, "content", PyNone).s
        abs_path == resolve_within(rel)
        made == mkdir_parents(disk, Parent(abs_path.loc))
    IN  IF abs_path.exc.raised THEN FsReturn(FailResult(abs_path.exc.msg), disk)
        ELSE IF is_protected(abs_path.loc, protected)
        THEN FsReturn(FailResult("Path is protected"), disk)
        ELSE IF made.exc.raised THEN FsReturn(FailResult(made.exc.msg), made.disk)
        ELSE IF made.disk[abs_path.loc].kind = "dir"
        THEN FsReturn(FailResult("[Errno 21] Is a directory: '/work/" \o abs_path.loc \o "'"),
                      made.disk)
        ELSE FsReturn(OkResult(PyDict(<<KV("path", PyStr(rel)),
                                        KV("bytes", PyInt(StSize(content)))>>)),
                      [made.disk EXCEPT ![abs_path.loc] = RegularFile(content)])

\* FileDeleteTool.execute
FileDeleteTool_execute(input, disk, protected) ==
    LET rel == DictGet(input, "path", PyNone).s
        abs_path == resolve_within(rel)
    IN  IF abs_path.exc.raised THEN FsReturn(FailResult(abs_path.exc.msg), disk)
        ELSE IF is_protected(abs_path.loc, protected)
        THEN FsReturn(FailResult("Path is protected"), disk)
        ELSE IF disk[abs_path.loc].kind # "file"
        THEN FsReturn(FailResult("File not found: " \o rel), disk)
        ELSE FsReturn(OkResult(PyDict(<<KV("deleted", PyStr(rel))>>)),
                      [disk EXCEPT ![abs_path.loc] = Absent])

\* FileReadTool.execute
FileReadTool_execute(input, disk) ==
    LET rel == DictGet(input, "path", PyNone).s
        abs_path == resolve_within(rel)
    IN  IF abs_path.exc.raised THEN FsReturn(FailResult(abs_path.exc.msg), disk)
        ELSE IF disk[abs_path.loc].kind # "file"
        THEN FsReturn(FailResult("File not found: " \o rel), disk)
        ELSE FsReturn(OkResult(PyDict(<<KV("path", PyStr(rel)),
                                        KV("content", PyStr(disk[abs_path.loc].content)),
                                        KV("size", PyInt(StSize(disk[abs_path.loc].content))),
                                        KV("line_count", PyInt(1))>>)),
                      disk)

\* FileEditTool.execute; no content of the tree is a proper part of
\* another, so that content.find(old_text) finds old_text in itself only.
FileEditTool_execute(input, disk, protected) ==
    LET rel == DictGet(input, "path", PyNone).s
        old_text == DictGet(input, "old_text", PyNone).s
        new_text == DictGet(input, "new_text", PyNone).s
        abs_path == resolve_within(rel)
    IN  IF abs_path.exc.raised THEN FsReturn(FailResult(abs_path.exc.msg), disk)
        ELSE IF is_protected(abs_path.loc, protected)
        THEN FsReturn(FailResult("Path is protected"), disk)
        ELSE IF disk[abs_path.loc].kind # "file"
        THEN FsReturn(FailResult("File not found: " \o rel), disk)
        ELSE IF disk[abs_path.loc].content # old_text
        THEN FsReturn(PyDict(<<KV("ok", PyBool(FALSE)),
                               KV("data", PyDict(<<KV("replacements", PyInt(0))>>)),
                               KV("error", PyStr("old_text not found"))>>),
                      disk)
        ELSE FsReturn(OkResult(PyDict(<<KV("replacements", PyInt(1)), KV("path", PyStr(rel))>>)),
                      [disk EXCEPT ![abs_path.loc] = RegularFile(new_text)])

\* DirectoryCreateTool.execute
DirectoryCreateTool_execute(input, disk) ==
    LET rel == DictGet(input, "path", PyNone).s
        abs_path == resolve_within(rel)
        made == mkdir_parents(disk, abs_path.loc)
    IN  IF abs_path.exc.raised THEN FsReturn(FailResult(abs_path.exc.msg), disk)
        ELSE IF made.exc.raised THEN FsReturn(FailResult(made.exc.msg), made.disk)
        ELSE FsReturn(OkResult(PyDict(<<KV("created", PyStr(rel))>>)), made.disk)

\* DirectoryDeleteTool.execute: shutil.rmtree removes the directory and all
\* beneath it, Path.rmdir an empty directory only.
DirectoryDeleteTool_execute(input, disk) ==
    LET rel == DictGet(input, "path", PyNone).s
        recursive == DictGet(input, "recursive", PyBool(FALSE))
        abs_path == resolve_within(rel)
    IN  IF abs_path.exc.raised THEN FsReturn(FailResult(abs_path.exc.msg), disk)
        ELSE IF disk[abs_path.loc].kind # "dir"
        THEN FsReturn(FailResult("Directory not found: " \o rel), disk)
        ELSE IF ~Truthy(recursive) /\ IterDir(disk, abs_path.loc) # <<>>
        THEN FsReturn(FailResult("[Errno 39] Directory not empty: '/work/" \o abs_path.loc \o "'"),
                      disk)
        ELSE FsReturn(OkResult(PyDict(<<KV("removed", PyStr(rel)), KV("recursive", recursive)>>)),
                      [l \in Locations |->
                          IF l = abs_path.loc \/ (l \in InsideLocs /\ Parent(l) = abs_path.loc)
                          THEN Absent ELSE disk[l]])

\* DirectoryListTool.execute
DirectoryListTool_execute(input, disk) ==
    LET rel == DictGet(input, "path", PyStr(".")).s
        abs_path == resolve_within(rel)
        children == IterDir(disk, abs_path.loc)
    IN  IF abs_path.exc.raised THEN FsReturn(FailResult(abs_path.exc.msg), disk)
        ELSE IF disk[abs_path.loc].kind # "dir"
        THEN FsReturn(FailResult("Directory not found: " \o rel), disk)
        ELSE FsReturn(OkResult(PyDict(<<KV("path", PyStr(rel)),
                 KV("entries", PyList([i \in 1..Len(children) |->
                     PyDict(<<KV("name", PyStr(BaseName(children[i]))),
                              KV("type", PyStr(IF disk[children[i]].kind = "dir"
                                               THEN "dir" ELSE "file")),
                              KV("size", PyInt(StSize(disk[children[i]].content)))>>)]))>>)),
                      disk)

\* DirectoryTreeTool.execute with the default max_depth of 2, and its own
\* check of the resolved path.
DirectoryTreeTool_execute(input, disk) ==
    LET rel == DictGet(input, "path", PyStr(".")).s
        abs_path == resolve_within(rel)
        children == IterDir(disk, abs_path.loc)
    IN  IF abs_path.exc.raised THEN FsReturn(FailResult(abs_path.exc.msg), disk)
        ELSE IF disk[abs_path.loc].kind # "dir"
        THEN FsReturn(FailResult("Directory not found: " \o rel), disk)
        ELSE FsReturn(OkResult(PyDict(<<KV("path", PyStr(rel)),
                 KV("tree", PyList([i \in 1..Len(children) |->
                     IF disk[children[i]].kind = "dir"
                     THEN PyDict(<<KV("name", PyStr(BaseName(children[i]))),
                                   KV("type", PyStr("dir")),
                                   KV("children", PyList(<<>>))>>)
                     ELSE PyDict(<<KV("name", PyStr(BaseName(children[i]))),
                                   KV("type", PyStr("file")),
                                   KV("size", PyInt(StSize(disk[children[i]].content)))>>)]))>>)),
                      disk)

\* tool.execute(arguments) of the tool of waa.tools.fs with the name.
FsExecute(name, input, disk, protected) ==
    CASE name = "fs.write" -> FileCreateTool_execute(input, disk, protected)
      [] name = "fs.delete" -> FileDeleteTool_execute(input, disk, protected)
      [] name = "fs.read" -> FileReadTool_execute(input, disk)
      [] name = "fs.edit" -> FileEditTool_execute(input, disk, protected)
      [] name = "fs.mkdir" -> DirectoryCreateTool_execute(input, disk)
      [] name = "fs.rmdir" -> DirectoryDeleteTool_execute(input, disk)
      [] name = "fs.ls" -> DirectoryListTool_execute(input, disk)
      [] name = "fs.tree" -> DirectoryTreeTool_execute(input, disk)

(***************************************************************************)
(* execute_tool called with calls of the tools of waa.tools.fs, one after   *)
(* the other, on a working directory that nothing else touches and whose    *)
(* configuration protects the directory "secrets".                          *)
(***************************************************************************)
MaxFsCalls == 2

FsPaths ==
    {"index.html", "secrets", "secrets/key.pem", "newdir/a.txt", "secrets/../index.html",
     "../outside.txt", "/etc/passwd", "secrets/../../outside.txt"}

FsInputs(name) ==
    CASE name = "fs.write" ->
           {PyDict(<<KV("path", PyStr(p)), KV("content", PyStr("bye"))>>) : p \in FsPaths}
      [] name = "fs.edit" ->
           {PyDict(<<KV("path", PyStr(p)), KV("old_text", PyStr("hi")),
                     KV("new_text", PyStr("bye"))>>) : p \in FsPaths}
      [] name = "fs.rmdir" ->
           {PyDict(<<KV("path", PyStr(p)), KV("recursive", PyBool(r))>>) :
               p \in FsPaths \cup {".waa"}, r \in BOOLEAN}
      [] OTHER -> {PyDict(<<KV("path", PyStr(p))>>) : p \in FsPaths}

FsTools ==
    {"fs.write", "fs.delete", "fs.read", "fs.edit", "fs.mkdir", "fs.rmdir", "fs.ls", "fs.tree"}

\* protected_files of .waa/config.json
ProtectedFiles == <<"secrets">>

FsDisk ==
    [l \in Locations |->
        CASE l = "index.html" -> RegularFile("hi")
          [] l = "secrets" -> Directory
          [] l = "secrets/key.pem" -> RegularFile("key")
          [] l = ".waa" -> Directory
          [] l = ".waa/agent.log" -> RegularFile("")
          [] l = "../outside.txt" -> RegularFile("out")
          [] l = "/etc/passwd" -> RegularFile("root")
          [] OTHER -> Absent]

FsInit ==
    /\ pc = "execute_tool"
    /\ config = [max_turns |-> MaxFsCalls, allowed_tools |-> AllowAll, llm_type |-> "mock",
                 server |-> ServerAbsent, protected_files |-> ProtectedFiles]
    /\ files = FsDisk
    /\ max_turns = MaxFsCalls
    /\ tool_registry = RegisterAll(NoTools, AllTools, config)
    /\ tool_init = InitializeAll(AllTools, config)
    /\ all_tools = AllTools
    /\ init_calls = InitializeCount(AllTools, config)
    /\ resp_text = <<>>
    /\ responses = <<>>
    /\ history = <<>>
    /\ messages = <<>>
    /\ turn = 0
    /\ llm_calls = 0
    /\ exec_calls = 0
    /\ log = LoggerLines \o RegistryLog(AllTools, config)
    /\ error = NoExc

\* Logger.log: open(self.log_path, 'a') needs the directory of the log.
LogOpens(disk) ==
    IF disk[".waa"].kind = "dir" /\ disk[".waa/agent.log"].kind # "dir"
    THEN NoExc
    ELSE Exc("FileNotFoundError",
             "[Errno 2] No such file or directory: '/work/.waa/agent.log'")

\* self.execute_tool(call_obj) for a call of a tool of waa.tools.fs.  The
\* entry is appended and the line logged inside the try that holds
\* tool.execute: when the log cannot be opened, the handler appends an entry
\* for the exception and logs in turn, and that exception leaves the method.
FsCall ==
    /\ pc = "execute_tool"
    /\ exec_calls < MaxFsCalls
    /\ \E name \in FsTools : \E input \in FsInputs(name) :
         LET out == FsExecute(name, input, files, config.protected_files)
             d == execute_tool(tool_registry, CallObj(PyStr(name), input), Returned(out.result))
             opened == LogOpens(out.disk)
         IN  /\ d.executed
             /\ exec_calls' = exec_calls + 1
             /\ files' = out.disk
             /\ IF opened.raised
                THEN /\ history' = history \o
                          <<d.tcr,
                            ToolCallResult(PyStr(name), input, PyNone,
                                           PyStr(opened.kind \o ": " \o opened.msg))>>
                     /\ log' = log
                     /\ Abort(opened)
                ELSE /\ history' = Append(history, d.tcr)
                     /\ log' = Append(log, d.line)
                     /\ UNCHANGED <<pc, error>>
    /\ UNCHANGED <<config, max_turns, tool_registry, tool_init, init_calls, all_tools,
                   turn, resp_text, responses, messages, llm_calls>>

FsNext == FsCall

FsSpec == FsInit /\ [][FsNext]_vars


(***************************************************************************)
(* Agent.run called again on a working directory.  Init is either an agent  *)
(* on which Agent.initialize has completed, or a new agent on a directory   *)
(* that holds no log.  A run that an exception has left can be followed by  *)
(* the run of a new agent on the same directory; in between, the user may   *)
(* repair the configuration and the instruction file, or remove the log.    *)
(***************************************************************************)
RerunConfigs ==
    [max_turns : {1}, allowed_tools : {AllowAll}, llm_type : {"mock", "gpt"},
     server : {ServerAbsent}]

\* Agent.initialize has returned.
Initialized ==
    /\ pc = "initialized"
    /\ config \in {c \in RerunConfigs : c.llm_type = "mock"}
    /\ files = [config |-> TRUE, log |-> TRUE, instruction |-> TRUE]
    /\ max_turns = config.max_turns
    /\ tool_registry = RegisterAll(NoTools, AllTools, config)
    /\ tool_init = InitializeAll(AllTools, config)
    /\ init_calls = InitializeCount(AllTools, config)
    /\ history = <<SystemPrompt(SystemText), UserInstruction(InstructionText)>>
    /\ log = LoggerLines \o RegistryLog(AllTools, config)
                \o <<"System prompt loaded into history",
                     "User instruction loaded into history">>

\* Agent.__init__
Constructed ==
    /\ pc = "initialize_environment"
    /\ config \in RerunConfigs
    /\ files \in [config : BOOLEAN, log : {FALSE}, instruction : BOOLEAN]
    /\ max_turns = 0
    /\ tool_registry = NoTools
    /\ tool_init = NotInitialized
    /\ init_calls = 0
    /\ history = <<>>
    /\ log = <<>>

RerunInit ==
    /\ Initialized \/ Constructed
    /\ all_tools = AllTools
    /\ turn = 0
    /\ resp_text = <<>>
    /\ responses = <<>>
    /\ messages = <<>>
    /\ llm_calls = 0
    /\ exec_calls = 0
    /\ error = NoExc

\* Agent.run is called on the agent that was initialized.
RunAgain ==
    /\ pc = "initialized"
    /\ pc' = "initialize_environment"
    /\ UNCHANGED <<config, files, max_turns, tool_registry, tool_init, init_calls, all_tools,
                   history, turn, resp_text, responses, messages, llm_calls, exec_calls, log,
                   error>>

\* A new agent is constructed on the directory and Agent.run called on it.
NextRun ==
    /\ pc = "Raised"
    /\ pc' = "initialize_environment"
    /\ max_turns' = 0
    /\ tool_registry' = NoTools
    /\ tool_init' = NotInitialized
    /\ init_calls' = 0
    /\ history' = <<>>
    /\ turn' = 0
    /\ resp_text' = <<>>
    /\ responses' = <<>>
    /\ messages' = <<>>
    /\ llm_calls' = 0
    /\ exec_calls' = 0
    /\ error' = NoExc
    /\ UNCHANGED <<config, files, all_tools, log>>

\* The user writes the missing files and corrects llm_type.
FixCause ==
    /\ pc = "Raised"
    /\ ~files.config \/ ~files.instruction \/ config.llm_type # "mock"
    /\ files' = [files EXCEPT !.config = TRUE, !.instruction = TRUE]
    /\ config' = [config EXCEPT !.llm_type = "mock"]
    /\ UNCHANGED <<pc, max_turns, tool_registry, tool_init, init_calls, all_tools, history, turn,
                   resp_text, responses, messages, llm_calls, exec_calls, log, error>>

\* The user removes .waa/agent.log.
RemoveLog ==
    /\ pc = "Raised"
    /\ files.log
    /\ files' = [files EXCEPT !.log = FALSE]
    /\ log' = <<>>
    /\ UNCHANGED <<pc, config, max_turns, tool_registry, tool_init, init_calls, all_tools, history,
                   turn, resp_text, responses, messages, llm_calls, exec_calls, error>>

RerunNext ==
    \/ Next
    \/ RunAgain
    \/ NextRun
    \/ FixCause
    \/ RemoveLog

RerunSpec == RerunInit /\ [][RerunNext]_vars


(***************************************************************************)
(* src/waa/tools/todo.py: the list stored in .waa/todo.json.  The time of   *)
(* _now_iso is the number of calls made so far; completed_at is -1 while    *)
(* the item has no such key.                                                *)
(***************************************************************************)
TodoItem(id, description, status, created_at, completed_at) ==
    [id |-> id, description |-> description, status |-> status, created_at |-> created_at,
     completed_at |-> completed_at]

\* A faulty variant of next_id that counts the stored items.
next_id_by_count(todos) == Len(todos) + 1

\* _next_id(todos)
next_id(todos) ==
    LET ids == {todos[i].id : i \in 1..Len(todos)} \cup {0}
    IN  (CHOOSE m \in ids : \A x \in ids : x <= m) + 1

\* "not desc.strip()" for the descriptions of the model
Blank(desc) == desc \in {"", " "}

TodoReturn(result, todos) == [result |-> result, todos |-> todos]

\* TodoAddTool.execute
TodoAddTool_execute(input, todos, now) ==
    LET desc == DictGet(input, "description", PyNone)
    IN  IF desc.ty # "str" \/ Blank(desc.s)
        THEN TodoReturn(FailResult("description must be a non-empty string"), todos)
        ELSE TodoReturn(OkResult(PyDict(<<KV("id", PyInt(next_id(todos)))>>)),
                        Append(todos, TodoItem(next_id(todos), desc.s, "pending", now, -1)))

\* The first item with the id, or 0.
FirstWithId(todos, todo_id) ==
    IF \E i \in 1..Len(todos) : todos[i].id = todo_id
    THEN CHOOSE i \in 1..Len(todos) :
            todos[i].id = todo_id /\ \A j \in 1..(i-1) : todos[j].id # todo_id
    ELSE 0

\* TodoCompleteTool.execute
TodoCompleteTool_execute(input, todos, now) ==
    LET todo_id == DictGet(input, "id", PyNone)
        found == FirstWithId(todos, todo_id.n)
    IN  IF todo_id.ty \notin {"int", "bool"}
        THEN TodoReturn(FailResult("id must be an integer"), todos)
        ELSE IF found = 0
        THEN TodoReturn(FailResult("Todo id " \o py_str(todo_id) \o " not found"), todos)
        ELSE TodoReturn(OkResult(PyDict(<<KV("id", todo_id)>>)),
                        [todos EXCEPT ![found].status = "completed",
                                      ![found].completed_at = now])

\* TodoRemoveTool.execute
TodoRemoveTool_execute(input, todos) ==
    LET todo_id == DictGet(input, "id", PyNone)
        new_todos == SelectSeq(todos, LAMBDA t : t.id # todo_id.n)
    IN  IF todo_id.ty \notin {"int", "bool"}
        THEN TodoReturn(FailResult("id must be an integer"), todos)
        ELSE IF Len(new_todos) = Len(todos)
        THEN TodoReturn(FailResult("Todo id " \o py_str(todo_id) \o " not found"), todos)
        ELSE TodoReturn(OkResult(PyDict(<<KV("removed_id", todo_id)>>)), new_todos)

\* tool.execute(arguments) of the tool of waa.tools.todo with the name.
TodoExecute(name, input, todos, now) ==
    CASE name = "todo.add" -> TodoAddTool_execute(input, todos, now)
      [] name = "todo.complete" -> TodoCompleteTool_execute(input, todos, now)
      [] name = "todo.remove" -> TodoRemoveTool_execute(input, todos)

(***************************************************************************)
(* execute_tool called with calls of todo.add, todo.complete and            *)
(* todo.remove, one after the other, from an empty list.                    *)
(***************************************************************************)
MaxTodoCalls == 4

TodoInputs(name) ==
    IF name = "todo.add"
    THEN {PyDict(<<KV("description", PyStr(d))>>) : d \in {"write tests", " "}}
    ELSE {PyDict(<<KV("id", PyInt(i))>>) : i \in 0..3}

TodoInit ==
    /\ pc = "execute_tool"
    /\ config = [max_turns |-> MaxTodoCalls, allowed_tools |-> AllowAll, llm_type |-> "mock",
                 server |-> ServerAbsent]
    /\ files = [config |-> TRUE, log |-> TRUE, instruction |-> TRUE, todo |-> <<>>]
    /\ max_turns = MaxTodoCalls
    /\ tool_registry = RegisterAll(NoTools, AllTools, config)
    /\ tool_init = InitializeAll(AllTools, config)
    /\ all_tools = AllTools
    /\ init_calls = InitializeCount(AllTools, config)
    /\ resp_text = <<>>
    /\ responses = <<>>
    /\ history = <<>>
    /\ messages = <<>>
    /\ turn = 0
    /\ llm_calls = 0
    /\ exec_calls = 0
    /\ log = LoggerLines \o RegistryLog(AllTools, config)
    /\ error = NoExc

\* self.execute_tool(call_obj) for a call of a tool of waa.tools.todo.
TodoCall ==
    /\ pc = "execute_tool"
    /\ exec_calls < MaxTodoCalls
    /\ \E name \in {"todo.add", "todo.complete", "todo.remove"} : \E input \in TodoInputs(name) :
         LET out == TodoExecute(name, input, files.todo, exec_calls)
             d == execute_tool(tool_registry, CallObj(PyStr(name), input), Returned(out.result))
         IN  /\ d.executed
             /\ history' = Append(history, d.tcr)
             /\ log' = Append(log, d.line)
             /\ exec_calls' = exec_calls + 1
             /\ files' = [files EXCEPT !.todo = out.todos]
    /\ UNCHANGED <<pc, config, max_turns, tool_registry, tool_init, init_calls, all_tools,
                   turn, resp_text, responses, messages, llm_calls, error>>

TodoNext == TodoCall

TodoSpec == TodoInit /\ [][TodoNext]_vars


TypeOK ==
    /\ pc \in {"initialize_environment", "initialize_llm", "initialize_logger",
               "initialize_tool_registry", "load_system_prompt", "load_instruction",
               "loop", "respond", "Terminated", "Exhausted", "ProtocolViolated", "Raised"}
    /\ turn \in 0..MaxTurns
    /\ llm_calls \in 0..MaxTurns
    /\ resp_text \in Responses

(***************************************************************************)
(* The projection as a function of one entry: Init draws a ToolCallResult,  *)
(* the one action projects the history that holds it.                       *)
(***************************************************************************)
ExtractNames == {PyStr("fs.read"), PyStr("(parse_error)"), PyInt(5)}

ExtractResults ==
    { PyNone, PyStr(""), PyStr("plain text"), PyInt(7), PyBool(TRUE),
      PyList(<<>>), PyList(<<PyInt(1), PyStr("a")>>), PyDict(<<>>),
      OkResult(PyDict(<<KV("path", PyStr("index.html")), KV("bytes", PyInt(2))>>)),
      FailResult("File not found: index.html") }

ExtractErrors ==
    { PyNone, PyStr("Unknown tool: fs.chmod"),
      PyStr("Invalid tool_call JSON: JSONDecodeError: Expecting value: line 1 column 1 (char 0)") }

ExtractEntries ==
    { ToolCallResult(n, PyDict(<<>>), r, e) :
        n \in ExtractNames, r \in ExtractResults, e \in ExtractErrors }

ExtractInit ==
    /\ pc = "extract"
    /\ history \in {<<e>> : e \in ExtractEntries}
    /\ config = [max_turns |-> 0, allowed_tools |-> AllowAll, llm_type |-> "mock",
                 server |-> ServerAbsent]
    /\ files = [config |-> TRUE, log |-> TRUE, instruction |-> TRUE]
    /\ max_turns = 0
    /\ tool_registry = NoTools
    /\ tool_init = NotInitialized
    /\ all_tools = AllTools
    /\ init_calls = 0
    /\ turn = 0
    /\ resp_text = <<>>
    /\ responses = <<>>
    /\ messages = <<>>
    /\ llm_calls = 0
    /\ exec_calls = 0
    /\ log = <<>>
    /\ error = NoExc

ExtractText ==
    /\ pc = "extract"
    /\ IF \E i \in 1..Len(history) : extract_text_outcome(history[i]).exc.raised
       THEN /\ pc' = "Raised"
            /\ error' = extract_text_outcome(history[
                           CHOOSE i \in 1..Len(history) :
                               extract_text_outcome(history[i]).exc.raised]).exc
            /\ UNCHANGED messages
       ELSE /\ messages' = history_to_messages(history)
            /\ pc' = "extracted"
            /\ UNCHANGED error
    /\ UNCHANGED <<config, files, max_turns, tool_registry, tool_init, init_calls, all_tools, history, turn, resp_text,
                   responses, llm_calls, exec_calls, log>>

ExtractNext == ExtractText

ExtractSpec == ExtractInit /\ [][ExtractNext]_vars

(***************************************************************************)
(* The projection of entries whose fields cannot be serialized or printed,  *)
(* and of entries whose get_content raises.                                 *)
(***************************************************************************)
FallbackNames == {PyStr("fs.read"), PyBadObject}

FallbackResults ==
    { PyNone, PyStr("plain text"),
      OkResult(PyDict(<<KV("path", PyStr("index.html"))>>)),
      PyObject("PosixPath('index.html')"),
      PyDict(<<KV("path", PyObject("PosixPath('index.html')"))>>),
      PyList(<<PyInt(1), PyBadObject>>),
      PyBadObject }

FallbackErrors ==
    { PyNone, PyStr("RuntimeError: boom"), PyObject("boom"), PyBadObject }

FallbackEntries ==
    { ToolCallResult(n, PyDict(<<>>), r, e) :
        n \in FallbackNames, r \in FallbackResults, e \in FallbackErrors }
    \cup { SystemPrompt(SystemText), UserInstruction(InstructionText),
           LLMResponse("<terminate>"), HistoryEntry("system"), BrokenEntry("system") }

FallbackInit ==
    /\ pc = "extract"
    /\ history \in {<<e>> : e \in FallbackEntries}
    /\ config = [max_turns |-> 0, allowed_tools |-> AllowAll, llm_type |-> "mock",
                 server |-> ServerAbsent]
    /\ files = [config |-> TRUE, log |-> TRUE, instruction |-> TRUE]
    /\ max_turns = 0
    /\ tool_registry = NoTools
    /\ tool_init = NotInitialized
    /\ all_tools = AllTools
    /\ init_calls = 0
    /\ turn = 0
    /\ resp_text = <<>>
    /\ responses = <<>>
    /\ messages = <<>>
    /\ llm_calls = 0
    /\ exec_calls = 0
    /\ log = <<>>
    /\ error = NoExc

FallbackSpec == FallbackInit /\ [][ExtractNext]_vars

(***************************************************************************)
(* Agent.execute_tool as a function of the registry, the call object and    *)
(* the way the tool's execute ends.  Tool.execute is declared to return     *)
(* Any: the outcomes are not only those of the tools of waa.tools.          *)
(***************************************************************************)
AnyOutcomes ==
    { Returned(PyNone), Returned(PyStr("")), Returned(PyDict(<<>>)), Returned(PyList(<<>>)),
      Returned(PyInt(0)), Returned(PyStr("done")),
      Returned(OkResult(PyDict(<<KV("path", PyStr("index.html"))>>))),
      Returned(FailResult("File not found: index.html")),
      Raised("RuntimeError", "boom"), Raised("ValueError", "") }

\* Calls of fs.read and fs.write with keys their schemas do not declare.
ExtraValues ==
    { PyNone, PyInt(1), PyStr("x"), PyBool(FALSE), PyList(<<PyInt(1)>>),
      PyDict(<<KV("path", PyInt(5))>>) }

ExtraDocs ==
    { CallObj(PyStr("fs.read"), PyDict(<<KV("path", PyStr("index.html")), KV("extra", v)>>)) :
        v \in ExtraValues }
    \cup { CallObj(PyStr("fs.read"), PyDict(<<KV("extra", v), KV("path", PyStr("index.html"))>>)) :
             v \in ExtraValues }
    \cup { CallObj(PyStr("fs.write"),
                   PyDict(<<KV("mode", v), KV("path", PyStr("index.html")),
                            KV("content", PyStr("hi")), KV("extra", PyInt(1))>>)) :
             v \in ExtraValues }
    \cup { CallObj(PyStr("fs.read"), PyDict(<<KV("extra", v)>>)) : v \in ExtraValues }

DispatchInit ==
    /\ pc = "execute_tool"
    /\ config \in [max_turns : {1}, allowed_tools : AllowLists, llm_type : {"mock"},
                   server : ServerConfigs]
    /\ tool_registry = RegisterAll(NoTools, AllTools, config)
    /\ tool_init = InitializeAll(AllTools, config)
    /\ all_tools = AllTools
    /\ init_calls = InitializeCount(AllTools, config)
    /\ resp_text \in {Wrapped(doc) : doc \in JsonDocs \cup ExtraDocs}
    /\ history = <<>>
    /\ files = [config |-> TRUE, log |-> FALSE, instruction |-> TRUE]
    /\ max_turns = 1
    /\ turn = 1
    /\ responses = <<>>
    /\ messages = <<>>
    /\ llm_calls = 0
    /\ exec_calls = 0
    /\ log = <<>>
    /\ error = NoExc

\* self.execute_tool(call_obj) with the call object of resp_text.
ExecuteTool ==
    /\ pc = "execute_tool"
    /\ \E out \in AnyOutcomes :
         LET d == execute_tool(tool_registry, json_loads(group1_strip(resp_text)).val, out)
         IN  IF d.exc.raised
             THEN /\ Abort(d.exc)
                  /\ UNCHANGED <<history, log, exec_calls>>
             ELSE /\ history' = Append(history, d.tcr)
                  /\ log' = Append(log, d.line)
                  /\ exec_calls' = exec_calls + (IF d.executed THEN 1 ELSE 0)
                  /\ pc' = "executed"
                  /\ UNCHANGED error
    /\ UNCHANGED <<config, files, max_turns, tool_registry, tool_init, init_calls, all_tools, turn, resp_text, responses,
                   messages, llm_calls>>

DispatchNext == ExecuteTool

DispatchSpec == DispatchInit /\ [][DispatchNext]_vars

(***************************************************************************)
(* ToolSchema.validate as a function of the schema and the mapping: Init    *)
(* draws a tool and an argument mapping, the one action validates the       *)
(* mapping against the schema of the tool.                                  *)
(***************************************************************************)
MaxArgs == 3

ValidateTools == {"fs.write", "fs.rmdir", "fs.tree"}

\* The keys of the mappings: the declared names of the three tools and one
\* name no schema declares.
ValidateKeys == {"path", "content", "recursive", "max_depth", "mode"}

ValidateValues == {PyStr("a"), PyInt(3), PyBool(TRUE)}

\* The dicts of at most MaxArgs keys, in every insertion order.
ValidateMappings ==
    { PyDict(items) : items \in
        { q \in UNION { [1..n -> {KV(k, v) : k \in ValidateKeys, v \in ValidateValues}] :
                          n \in 0..MaxArgs } :
            \A i, j \in 1..Len(q) : i # j => q[i].k # q[j].k } }

ValidateInit ==
    /\ pc = "validate"
    /\ resp_text \in { Wrapped(CallObj(PyStr(t), m)) : t \in ValidateTools, m \in ValidateMappings }
    /\ config = [max_turns |-> 1, allowed_tools |-> AllowAll, llm_type |-> "mock",
                 server |-> ServerAbsent]
    /\ tool_registry = RegisterAll(NoTools, AllTools, config)
    /\ tool_init = InitializeAll(AllTools, config)
    /\ all_tools = AllTools
    /\ init_calls = InitializeCount(AllTools, config)
    /\ history = <<>>
    /\ files = [config |-> TRUE, log |-> FALSE, instruction |-> TRUE]
    /\ max_turns = 1
    /\ turn = 1
    /\ responses = <<>>
    /\ messages = <<>>
    /\ llm_calls = 0
    /\ exec_calls = 0
    /\ log = <<>>
    /\ error = NoExc

\* tool.schema.validate(arguments): error is the exception it raises.
Validate ==
    /\ pc = "validate"
    /\ error' = SchemaValidate(tool_registry[ToolName(resp_text[2].val).s].schema,
                               ToolArguments(resp_text[2].val))
    /\ pc' = "validated"
    /\ UNCHANGED <<config, files, max_turns, tool_registry, tool_init, init_calls, all_tools, history, turn, resp_text,
                   responses, messages, llm_calls, exec_calls, log>>

ValidateNext == Validate

ValidateSpec == ValidateInit /\ [][ValidateNext]_vars

(***************************************************************************)
(* The claims.  What a claim says of a response is stated on the segments   *)
(* of its text.                                                             *)
(***************************************************************************)
\* The text holds the literal <terminate>.
HasMarker(segs) ==
    \E i \in 1..Len(segs) :
        \/ segs[i].kind = "terminate"
        \/ segs[i].kind = "json" /\ Mentions(segs[i].val, "<terminate>")

\* The text holds <tool_call> and, after it, </tool_call>.
HasWrapper(segs) ==
    \E i, j \in 1..Len(segs) : i < j /\ segs[i].kind = "open" /\ segs[j].kind = "close"

\* A wrapper and no marker; the content of the wrapper is JSON, or is not.
ParseableTurn(segs) ==
    ~HasMarker(segs) /\ HasWrapper(segs) /\ ~json_loads(group1_strip(segs)).exc.raised

BadJsonTurn(segs) ==
    ~HasMarker(segs) /\ HasWrapper(segs) /\ json_loads(group1_strip(segs)).exc.raised

\* The call object of a parseable turn.
CallOf(segs) == json_loads(group1_strip(segs)).val

LoopStarted == Len(history) >= 2

RunEnded == pc \in {"Terminated", "Exhausted", "ProtocolViolated", "Raised"}

LastEntry == history[Len(history)]

\* C1: when max_turns >= 1 and every response of the model holds a tool-call
\* wrapper and no termination marker, the run makes exactly max_turns model
\* queries and then stops; the turn counter never passes max_turns.
C1_ExactlyMaxTurnsQueries ==
    ( /\ LoopStarted
      /\ max_turns >= 1
      /\ Len(responses) = llm_calls
      /\ \A i \in 1..Len(responses) : ~HasMarker(responses[i]) /\ HasWrapper(responses[i]) )
    => /\ turn <= max_turns
       /\ llm_calls <= max_turns
       /\ (RunEnded => llm_calls = max_turns)

\* C2: a response that holds both the termination marker and a tool-call
\* wrapper ends the run on that turn: no entry is appended, no tool is
\* executed and the model is not queried again.
C2_TerminateWinsOverToolCall ==
    /\ [][ (pc = "respond" /\ HasMarker(resp_text) /\ HasWrapper(resp_text))
           => /\ pc' = "Terminated"
              /\ history' = history
              /\ exec_calls' = exec_calls
              /\ llm_calls' = llm_calls ]_vars
    /\ [][ pc = "Terminated" => UNCHANGED <<pc, history, exec_calls, llm_calls>> ]_vars

C2_Witness ==
    /\ pc = "Terminated"
    /\ HasWrapper(resp_text)
    /\ resp_text[1].kind = "open"
    /\ resp_text[Len(resp_text)].kind = "terminate"

\* C3: a turn t whose wrapper holds invalid JSON (and no marker) does not
\* abort the run, and when t < max_turns the model is queried for turn t+1.
C3_ParseFailureContinues ==
    /\ [][ (pc = "respond" /\ BadJsonTurn(resp_text))
           => /\ pc' = "loop"
              /\ error' = NoExc
              /\ turn' = turn
              /\ history'[Len(history')].tool_name = PyStr("(parse_error)") ]_vars
    /\ [][ (pc = "loop" /\ LoopStarted /\ LastEntry.tool_name = PyStr("(parse_error)")
             /\ turn < max_turns)
           => llm_calls' = llm_calls + 1 /\ turn' = turn + 1 ]_vars
    /\ []( (pc = "loop" /\ LoopStarted /\ LastEntry.tool_name = PyStr("(parse_error)")
             /\ turn < max_turns)
           => ENABLED QueryLLM )

C3_Witness ==
    /\ pc = "respond"
    /\ turn = 2
    /\ llm_calls = 2
    /\ BadJsonTurn(responses[1])

\* C4: a response with neither the marker nor a complete wrapper stops the
\* run on that turn without an exception: the turn adds the model response
\* to the history and nothing else, and the model is not queried again.
C4_ProtocolViolationStops ==
    /\ [][ (pc = "respond" /\ ~HasMarker(resp_text) /\ ~HasWrapper(resp_text))
           => /\ LastEntry = LLMResponse(Render(resp_text))
              /\ pc' = "ProtocolViolated"
              /\ history' = history
              /\ error' = NoExc
              /\ exec_calls' = exec_calls
              /\ llm_calls' = llm_calls ]_vars
    /\ [][ pc = "ProtocolViolated" => UNCHANGED <<pc, history, llm_calls>> ]_vars

C4_Witness ==
    /\ pc = "ProtocolViolated"
    /\ Len(resp_text) = 2
    /\ resp_text[1].kind = "open"
    /\ LastEntry.cls = "LLMResponse"

\* C5: every turn whose wrapper holds parseable JSON appends exactly one
\* ToolCallResult and does not abort the run, whatever the parsed value is.
C5_ParseableTurnNeverAborts ==
    [][ (pc = "respond" /\ ParseableTurn(resp_text))
        => /\ pc' = "loop"
           /\ error' = NoExc
           /\ Len(history') = Len(history) + 1
           /\ SubSeq(history', 1, Len(history)) = history
           /\ history'[Len(history')].cls = "ToolCallResult" ]_vars

\* C6: a non-empty tool name that is no key of the registry gives a
\* ToolCallResult with the error "Unknown tool: <name>" and no result, and
\* no exception leaves execute_tool.
UnknownNameTurn(segs) ==
    /\ ParseableTurn(segs)
    /\ CallOf(segs).ty = "dict"
    /\ ToolName(CallOf(segs)).ty = "str"
    /\ ToolName(CallOf(segs)).s # ""
    /\ ToolName(CallOf(segs)).s \notin DOMAIN tool_registry

C6_UnknownToolNamed ==
    [][ (pc = "respond" /\ UnknownNameTurn(resp_text))
        => /\ pc' = "loop"
           /\ error' = NoExc
           /\ exec_calls' = exec_calls
           /\ history' = Append(history,
                 ToolCallResult(ToolName(CallOf(resp_text)), ToolArguments(CallOf(resp_text)),
                                PyNone,
                                PyStr("Unknown tool: " \o ToolName(CallOf(resp_text)).s))) ]_vars

C6_Witness ==
    /\ pc = "loop"
    /\ LoopStarted
    /\ LastEntry.error = PyStr("Unknown tool: fs.delete")
    /\ LastEntry.result = PyNone

\* C7: execute_tool takes the first disposition that applies: the tool name
\* missing or empty, the name absent from the registry, the arguments
\* rejected by the schema, execute raising, success.
ExpectedEntries(tools, call) ==
    IF ~Truthy(ToolName(call))
    THEN { ToolCallResult(PyStr("(missing)"), ToolArguments(call), PyNone,
                          PyStr("Missing 'tool' in tool_call")) }
    ELSE IF ToolName(call).ty # "str" \/ ToolName(call).s \notin DOMAIN tools
    THEN { ToolCallResult(ToolName(call), ToolArguments(call), PyNone,
                          PyStr("Unknown tool: " \o py_str(ToolName(call)))) }
    ELSE IF SchemaValidate(tools[ToolName(call).s].schema, ToolArguments(call)).raised
    THEN { ToolCallResult(ToolName(call), ToolArguments(call), PyNone,
              PyStr("Invalid arguments: "
                    \o SchemaValidate(tools[ToolName(call).s].schema, ToolArguments(call)).msg)) }
    ELSE { IF out.exc.raised
           THEN ToolCallResult(ToolName(call), ToolArguments(call), PyNone,
                               PyStr(out.exc.kind \o ": " \o out.exc.msg))
           ELSE ToolCallResult(ToolName(call), ToolArguments(call), out.result, PyNone) :
           out \in ToolOutcomes(ToolName(call).s, ToolArguments(call)) }

NamedCallTurn(segs) ==
    /\ ParseableTurn(segs)
    /\ CallOf(segs).ty = "dict"
    /\ ToolName(CallOf(segs)).ty \in {"NoneType", "str"}

C7_FirstDispositionWins ==
    [][ (pc = "respond" /\ NamedCallTurn(resp_text))
        => /\ pc' = "loop"
           /\ Len(history') = Len(history) + 1
           /\ SubSeq(history', 1, Len(history)) = history
           /\ history'[Len(history')] \in ExpectedEntries(tool_registry, CallOf(resp_text)) ]_vars

C7_Witness ==
    /\ pc = "loop"
    /\ LoopStarted
    /\ LastEntry.error = PyStr("Missing 'tool' in tool_call")
    /\ LastEntry.arguments = Args1("path", PyInt(5))
    /\ ToolName(CallOf(resp_text)) = PyStr("")

\* C8: the projection gives one message per history entry, in the order of
\* the entries, and the first two messages have the roles system and user.
C8_OneMessagePerEntry ==
    [][ llm_calls' = llm_calls + 1
        => /\ Len(messages') = Len(history)
           /\ \A i \in 1..Len(history) :
                messages'[i].content = extract_text_for_entry(history[i])
           /\ messages'[1].role = "system"
           /\ messages'[2].role = "user" ]_vars

C8_Witness ==
    /\ Len(messages) = 4
    /\ history[3].cls = "LLMResponse"
    /\ history[4].cls = "ToolCallResult"
    /\ messages[4].content = extract_text_for_entry(history[4])

\* C9: every ToolCallResult of the history is projected to a message with
\* the role "tool".
C9_ToolResultsHaveRoleTool ==
    \A i \in 1..Len(messages) :
        (i <= Len(history) /\ history[i].cls = "ToolCallResult") => messages[i].role = "tool"

\* C10: the text of a ToolCallResult is "[Tool:<name>] (error) <error>" when
\* it has an error, and otherwise "[Tool:<name>] " followed by the JSON form
\* of a dict or list result, or the string form of any other result.
C10_ToolResultText ==
    pc = "extracted" =>
        messages[1].content =
            IF history[1].error # PyNone
            THEN "[Tool:" \o py_str(history[1].tool_name) \o "] (error) " \o history[1].error.s
            ELSE IF history[1].result.ty \in {"dict", "list"}
                 THEN "[Tool:" \o py_str(history[1].tool_name) \o "] "
                          \o json_dumps(history[1].result)
                 ELSE "[Tool:" \o py_str(history[1].tool_name) \o "] "
                          \o py_str(history[1].result)

C10_Witness ==
    /\ pc = "extracted"
    /\ history[1].error # PyNone
    /\ history[1].result.ty = "dict"
    /\ Len(history[1].result.items) > 0

\* C11: projecting an entry to text never raises.  An entry whose fields
\* cannot be serialized is shown by its string form, an entry whose
\* get_content raises by the string form of the entry, and an entry whose
\* string form raises too by the empty text.
C11_ProjectionNeverRaises ==
    /\ pc # "Raised"
    /\ error = NoExc
    /\ pc = "extracted" =>
         /\ Len(messages) = 1
         /\ history[1].cls = "BrokenEntry" => messages[1].content = ""
         /\ history[1].cls = "HistoryEntry" =>
                messages[1].content = "<waa.history.HistoryEntry object>"
         /\ ( /\ history[1].cls = "ToolCallResult"
              /\ history[1].tool_name.ty = "str"
              /\ history[1].error = PyNone
              /\ history[1].result = PyDict(<<KV("path", PyObject("PosixPath('index.html')"))>>) )
            => messages[1].content = "[Tool:fs.read] {'path': PosixPath('index.html')}"

C11_Witness ==
    /\ pc = "extracted"
    /\ history[1].cls = "HistoryEntry"
    /\ messages[1].content = "<waa.history.HistoryEntry object>"

\* C12: the history is append-only: every step leaves the history as it is
\* or appends one entry at its end, so an earlier history is a prefix of
\* every later one.
C12_HistoryAppendOnly ==
    [][ \/ history' = history
        \/ /\ Len(history') = Len(history) + 1
           /\ SubSeq(history', 1, Len(history)) = history ]_vars

C12_Witness ==
    /\ Len(history) = 6
    /\ history[4].cls = "ToolCallResult"
    /\ history[4].tool_name = PyStr("(parse_error)")
    /\ history[6].cls = "ToolCallResult"
    /\ history[6].error = PyNone

\* C13: when the first model query is issued the history is exactly
\* <<SystemPrompt, UserInstruction>>; from then on these stay the first two
\* entries and no other SystemPrompt or UserInstruction is in the history.
C13_PromptThenInstruction ==
    /\ [][ (llm_calls = 0 /\ llm_calls' = 1)
           => history = <<SystemPrompt(SystemText), UserInstruction(InstructionText)>> ]_vars
    /\ []( llm_calls >= 1
           => /\ Len(history) >= 2
              /\ history[1] = SystemPrompt(SystemText)
              /\ history[2] = UserInstruction(InstructionText)
              /\ \A i \in 3..Len(history) :
                    history[i].cls \notin {"SystemPrompt", "UserInstruction"} )

C13_Witness ==
    /\ llm_calls = 2
    /\ Len(history) = 5
    /\ history[1].cls = "SystemPrompt"
    /\ history[2].cls = "UserInstruction"
    /\ history[5].cls = "LLMResponse"

\* What a field of a ToolCallResult holds is meaningful: neither None nor empty.
Populated(v) == Truthy(v)

ValidatedSchema == tool_registry[ToolName(resp_text[2].val).s].schema

ValidatedInput == ToolArguments(resp_text[2].val)

Lacks(a, m) == a.required /\ ~(\E i \in 1..Len(m.items) : m.items[i].k = a.name)

WrongType(a, m) == \E i \in 1..Len(m.items) : m.items[i].k = a.name /\ m.items[i].v.ty # a.type

Reordered(m) ==
    { PyDict([i \in 1..Len(m.items) |-> m.items[p[i]]]) :
        p \in { q \in [1..Len(m.items) -> 1..Len(m.items)] :
                  \A i, j \in 1..Len(m.items) : i # j => q[i] # q[j] } }

OrderIndependent ==
    \A m \in Reordered(ValidatedInput) : SchemaValidate(ValidatedSchema, m) = error

\* C15 as stated: a mapping that lacks a required argument is rejected with
\* "Argument <name> is required", a mapping with a declared argument of the
\* wrong type is rejected with "Argument <name> is invalid", and the outcome
\* does not depend on the order of the keys.
C15_AsStated ==
    pc = "validated" =>
        /\ (\E j \in 1..Len(ValidatedSchema) : Lacks(ValidatedSchema[j], ValidatedInput))
              => /\ error.raised
                 /\ \E j \in 1..Len(ValidatedSchema) :
                       error.msg = "Argument " \o ValidatedSchema[j].name \o " is required"
        /\ (\E j \in 1..Len(ValidatedSchema) : WrongType(ValidatedSchema[j], ValidatedInput))
              => /\ error.raised
                 /\ \E j \in 1..Len(ValidatedSchema) :
                       error.msg = "Argument " \o ValidatedSchema[j].name \o " is invalid"
        /\ OrderIndependent

\* C15, amended: a mapping with either defect is rejected with a ValueError;
\* the message is that of the first declared argument, in the order of the
\* schema, that is lacking ("is required") or of the wrong type ("is
\* invalid"); the outcome does not depend on the order of the keys.
C15_FirstDefectDecides ==
    pc = "validated" =>
        /\ \A j \in 1..Len(ValidatedSchema) :
              ( /\ Lacks(ValidatedSchema[j], ValidatedInput)
                   \/ WrongType(ValidatedSchema[j], ValidatedInput)
                /\ \A k \in 1..(j - 1) :
                     /\ ~Lacks(ValidatedSchema[k], ValidatedInput)
                     /\ ~WrongType(ValidatedSchema[k], ValidatedInput) )
              => error = Exc("ValueError",
                             "Argument " \o ValidatedSchema[j].name
                                 \o (IF Lacks(ValidatedSchema[j], ValidatedInput)
                                     THEN " is required" ELSE " is invalid"))
        /\ OrderIndependent

C15_Witness ==
    /\ pc = "validated"
    /\ ToolName(resp_text[2].val) = PyStr("fs.write")
    /\ ValidatedInput = PyDict(<<KV("mode", PyStr("a")), KV("path", PyInt(3))>>)
    /\ error = Exc("ValueError", "Argument path is invalid")

\* The call of a dispatch, and its arguments without the keys the schema of
\* the tool does not declare.
DispatchedCall == resp_text[2].val

Declared(schema, m) ==
    PyDict(SelectSeq(m.items, LAMBDA kv : \E j \in 1..Len(schema) : schema[j].name = kv.k))

HasExtraKeys(schema, m) == Declared(schema, m) # m

\* C16: a mapping with keys the schema does not declare is accepted whenever
\* the mapping without these keys is, whatever their values, and the tool's
\* execute is called with the mapping as it was supplied.
C16_UndeclaredKeysAccepted ==
    ( /\ pc = "executed"
      /\ DispatchedCall.ty = "dict"
      /\ ToolName(DispatchedCall).ty = "str"
      /\ ToolName(DispatchedCall).s \in DOMAIN tool_registry
      /\ ToolArguments(DispatchedCall).ty = "dict"
      /\ \A j \in 1..Len(tool_registry[ToolName(DispatchedCall).s].schema) :
            /\ ~Lacks(tool_registry[ToolName(DispatchedCall).s].schema[j],
                      Declared(tool_registry[ToolName(DispatchedCall).s].schema,
                               ToolArguments(DispatchedCall)))
            /\ ~WrongType(tool_registry[ToolName(DispatchedCall).s].schema[j],
                          Declared(tool_registry[ToolName(DispatchedCall).s].schema,
                                   ToolArguments(DispatchedCall))) )
    => /\ exec_calls = 1
       /\ history[1].tool_name = ToolName(DispatchedCall)
       /\ history[1].arguments = ToolArguments(DispatchedCall)
       /\ \/ history[1].error = PyNone
          \/ history[1].error \in {PyStr("RuntimeError: boom"), PyStr("ValueError: ")}

C16_Witness ==
    /\ pc = "executed"
    /\ exec_calls = 1
    /\ ToolName(DispatchedCall) = PyStr("fs.write")
    /\ HasExtraKeys(tool_registry["fs.write"].schema, ToolArguments(DispatchedCall))
    /\ history[1].arguments.items[1] = KV("mode", PyDict(<<KV("path", PyInt(5))>>))
    /\ history[1].error = PyNone
    /\ history[1].result # PyNone


\* The registry has been built: the startup is past initialize_tool_registry.
RegistryBuilt ==
    pc \in {"load_system_prompt", "load_instruction", "loop", "respond",
            "Terminated", "Exhausted", "ProtocolViolated"}

InAllowList(name) == name \in config.allowed_tools.names

\* The response asks for the named tool with a JSON object.
AsksFor(segs, name) ==
    /\ ParseableTurn(segs)
    /\ CallOf(segs).ty = "dict"
    /\ ToolName(CallOf(segs)) = PyStr(name)

\* C17: with an allow-list the registry built at startup holds exactly the
\* discovered tools the list names, and a tool outside it is neither
\* initialized nor registered; without an allow-list every discovered tool is
\* registered.  A request for fs.delete, which the list leaves out, appends
\* the error "Unknown tool: fs.delete" and executes nothing.
C17_AllowListFiltersRegistry ==
    /\ [](RegistryBuilt =>
            /\ config.allowed_tools.configured =>
                  /\ DOMAIN tool_registry = {n \in ToolNames : InAllowList(n)}
                  /\ \A n \in ToolNames : ~InAllowList(n) => tool_init[n] = "no"
            /\ ~config.allowed_tools.configured => DOMAIN tool_registry = ToolNames
            /\ \A n \in DOMAIN tool_registry :
                  tool_registry[n].name = n /\ tool_init[n] # "no")
    /\ [][ ( /\ pc = "respond"
             /\ config.allowed_tools.configured
             /\ ~InAllowList("fs.delete")
             /\ AsksFor(resp_text, "fs.delete") )
           => /\ exec_calls' = exec_calls
              /\ Len(history') = Len(history) + 1
              /\ history'[Len(history')].error = PyStr("Unknown tool: fs.delete")
              /\ history'[Len(history')].result = PyNone ]_vars

C17_Witness ==
    /\ pc = "loop"
    /\ LoopStarted
    /\ config.allowed_tools.configured
    /\ ~InAllowList("fs.delete")
    /\ "fs.write" \in DOMAIN tool_registry
    /\ tool_init["fs.delete"] = "no"
    /\ LastEntry.role = "tool"
    /\ LastEntry.tool_name = PyStr("fs.delete")
    /\ LastEntry.error = PyStr("Unknown tool: fs.delete")
    /\ exec_calls = 0

\* The initialize of the named tool was called and raised.
InitializeFailed(name) == tool_init[name] = "raised"

\* C18: a tool whose initialize raised while the registry was built is
\* registered under its name, the tools after it are processed as well, and
\* a later request for it reaches its execute: the entry appended is not an
\* unknown-tool error.
C18_InitializeFailureStillRegisters ==
    /\ [](RegistryBuilt =>
            /\ \A n \in ToolNames :
                  InitializeFailed(n) => n \in DOMAIN tool_registry /\ tool_registry[n].name = n
            /\ \A n \in ToolNames :
                  (~config.allowed_tools.configured \/ InAllowList(n))
                      => n \in DOMAIN tool_registry)
    /\ [][ ( /\ pc = "respond"
             /\ InitializeFailed("npm.init")
             /\ AsksFor(resp_text, "npm.init")
             /\ ToolArguments(CallOf(resp_text)).ty = "dict" )
           => /\ exec_calls' = exec_calls + 1
              /\ Len(history') = Len(history) + 1
              /\ history'[Len(history')].tool_name = PyStr("npm.init")
              /\ history'[Len(history')].error # PyStr("Unknown tool: npm.init") ]_vars

C18_Witness ==
    /\ pc = "loop"
    /\ LoopStarted
    /\ InitializeFailed("npm.init")
    /\ InitializeFailed("npm.stop")
    /\ tool_init["fs.read"] = "returned"
    /\ LastEntry.role = "tool"
    /\ LastEntry.tool_name = PyStr("npm.init")
    /\ LastEntry.error = PyNone
    /\ Truthy(LastEntry.result)
    /\ exec_calls = 1


\* The log of an earlier run is in place: the file holds its lines.
PriorLogInPlace == files.log /\ Len(log) >= Len(PriorLog) /\ SubSeq(log, 1, Len(PriorLog)) = PriorLog

BeforeLogger == pc \in {"initialize_environment", "initialize_llm", "initialize_logger"}

\* C19: when .waa/agent.log exists at the start, initialize_logger raises
\* RuntimeError out of Agent.run; no tool has been initialized or registered,
\* the history is empty, the model was not queried, and the file keeps the
\* lines of the earlier run.
C19_ExistingLogFailsFast ==
    /\ [][ (pc = "initialize_logger" /\ files.log)
           => /\ pc' = "Raised"
              /\ error'.kind = "RuntimeError"
              /\ UNCHANGED <<files, log>> ]_vars
    /\ [](PriorLogInPlace =>
            /\ BeforeLogger \/ pc = "Raised"
            /\ log = PriorLog
            /\ tool_registry = NoTools
            /\ tool_init = NotInitialized
            /\ history = <<>>
            /\ llm_calls = 0
            /\ exec_calls = 0)

C19_Witness ==
    /\ pc = "Raised"
    /\ error = Exc("RuntimeError",
                   "Log file already exists: .waa/agent.log. Remove it to start a new run.")
    /\ files.log
    /\ log = PriorLog
    /\ history = <<>>


\* The reason line each terminal state writes to the log.
ReasonLine(state) ==
    CASE state = "Terminated" -> "Terminate at turn " \o ToString(turn)
      [] state = "Exhausted" ->
             "Reached max_turns=" \o ToString(max_turns) \o " without termination."
      [] state = "ProtocolViolated" -> "LLM output had no <tool_call> or <terminate>. Stopping."

TerminalStates == {"Terminated", "Exhausted", "ProtocolViolated"}

\* The positions of the log that hold the reason line of some terminal state.
ReasonPositions ==
    {i \in 1..Len(log) : \E st \in TerminalStates : log[i] = ReasonLine(st)}

\* The log lines of an execute that raised, for the calls the model makes.
ExecuteRaisedLines ==
    UNION { { "[Tool ERR] " \o n \o " -> " \o out.exc.kind \o ": " \o out.exc.msg :
                out \in {o \in ToolOutcomes(n, PyDict(<<>>)) : o.exc.raised} } :
            n \in ToolNames }

\* Every model call and every tool execution of the run so far returned.
EveryCallReturned ==
    /\ Len(responses) = llm_calls
    /\ \A i \in 1..Len(log) : log[i] \notin ExecuteRaisedLines

\* C20: while every model call and tool execution returns, a run that has
\* started the loop does not raise: it goes on or is in one of Terminated,
\* Exhausted and ProtocolViolated, and stays there; the three reason lines
\* differ, a run that has ended wrote exactly one of them, the one of its
\* terminal state, as the last line of the log, and a run that has not ended
\* wrote none.
C20_ThreeTerminalStates ==
    /\ [](LoopStarted /\ EveryCallReturned
            => pc \in {"loop", "respond"} \cup TerminalStates)
    /\ [](\A a, b \in TerminalStates : a # b => ReasonLine(a) # ReasonLine(b))
    /\ [](LoopStarted /\ pc \in TerminalStates
            => /\ ReasonPositions = {Len(log)}
               /\ log[Len(log)] = ReasonLine(pc))
    /\ [](pc \in {"loop", "respond"} => ReasonPositions = {})
    /\ [][ (pc \in TerminalStates) => (pc' = pc /\ log' = log /\ history' = history) ]_vars


\* C21: the loop is sequential.  A step makes at most one model call or one
\* tool execution; a tool is executed only when the response of the turn is
\* the last entry of the history; the model is queried for turn t+1 only
\* when the ToolCallResult of turn t is the last entry, right after the
\* response of turn t; and the messages of a query project every entry the
\* history holds at that moment, in order.
C21_StrictlySequential ==
    /\ [][ (llm_calls' - llm_calls) + (exec_calls' - exec_calls) \in {0, 1} ]_vars
    /\ [][ exec_calls' # exec_calls
           => /\ pc = "respond"
              /\ LastEntry = LLMResponse(Render(resp_text))
              /\ Len(responses) = turn ]_vars
    /\ [][ llm_calls' # llm_calls
           => /\ pc = "loop"
              /\ turn' = turn + 1
              /\ turn >= 1 => /\ LastEntry.cls = "ToolCallResult"
                              /\ history[Len(history) - 1] = LLMResponse(Render(resp_text))
              /\ Len(messages') = Len(history)
              /\ \A i \in 1..Len(history) :
                    messages'[i] = [role |-> message_role(history[i]),
                                    content |-> extract_text_for_entry(history[i])] ]_vars

C21_Witness ==
    /\ pc = "respond"
    /\ turn = 2
    /\ exec_calls = 1
    /\ history[4].cls = "ToolCallResult"
    /\ Len(messages) = 4
    /\ messages[4].content = extract_text_for_entry(history[4])


\* The entry reports a failed action: a tool that raised or returned a
\* failure, rejected arguments, an unknown or missing tool, unparseable JSON.
FailedEntry(entry) ==
    /\ entry.cls = "ToolCallResult"
    /\ \/ entry.error # PyNone
       \/ /\ entry.result.ty = "dict"
          /\ DictGet(entry.result, "ok", PyNone) = PyBool(FALSE)

\* C22: nothing is retried.  Each turn calls generate once (the number of
\* model calls equals the turn number) and execute at most once; the step
\* that handles a response calls execute at most once and ends the turn,
\* whether the action failed or not, and after a failed action the next
\* execute needs a new response of the model.
C22_NoRetry ==
    /\ [](pc \in {"loop", "respond"} \cup TerminalStates => llm_calls = turn)
    /\ [](exec_calls <= turn)
    /\ [][ pc = "respond"
           => /\ pc' # "respond"
              /\ llm_calls' = llm_calls
              /\ turn' = turn
              /\ exec_calls' - exec_calls \in {0, 1} ]_vars
    /\ [][ (pc = "loop" /\ turn >= 1 /\ FailedEntry(LastEntry))
           => /\ exec_calls' = exec_calls
              /\ history' # history => /\ llm_calls' = llm_calls + 1
                                       /\ turn' = turn + 1 ]_vars

C22_Witness ==
    /\ pc = "loop"
    /\ turn = 2
    /\ llm_calls = 2
    /\ exec_calls = 2
    /\ history[4].error = PyStr("PermissionError: [Errno 13] Permission denied: 'package.json'")
    /\ history[6].tool_name = PyStr("npm.init")
    /\ history[6].error = PyNone


\* The step is a model call that did not return a response.
GenerateRaised == llm_calls' = llm_calls + 1 /\ responses' = responses

\* C23: when generate raises, the exception leaves Agent.run: the history is
\* the one of the end of the previous turn, no ToolCallResult and no
\* LLMResponse is appended, no tool is executed, and the run does not go on.
C23_GenerateErrorIsFatal ==
    /\ [][ GenerateRaised
           => /\ pc' = "Raised"
              /\ error'.raised
              /\ error'.kind = "RuntimeError"
              /\ history' = history
              /\ exec_calls' = exec_calls ]_vars
    /\ [](Len(responses) < llm_calls
            => /\ pc = "Raised"
               /\ Len(history) = 2 + Len(SelectSeq(history, LAMBDA e : e.cls = "LLMResponse"))
                                    + Len(SelectSeq(history, LAMBDA e : e.cls = "ToolCallResult"))
               /\ Len(SelectSeq(history, LAMBDA e : e.cls = "LLMResponse")) = llm_calls - 1)

C23_Witness ==
    /\ pc = "Raised"
    /\ error = Exc("RuntimeError", "Gemini API error")
    /\ llm_calls = 2
    /\ Len(responses) = 1
    /\ Len(history) = 4
    /\ LastEntry.cls = "ToolCallResult"


ModelResponses == SelectSeq(history, LAMBDA e : e.cls = "LLMResponse")

\* C24: each model query that is answered appends exactly one LLMResponse;
\* each turn that attempts an action (a tool-call wrapper and no
\* termination marker) appends exactly one ToolCallResult; after the first
\* two entries the history alternates LLMResponse, ToolCallResult; there are
\* at most max_turns LLMResponse entries; and the message list of turn t has
\* 2t entries.
C24_OneResponseOneResultPerTurn ==
    /\ [][ (llm_calls' # llm_calls /\ responses' # responses)
           => history' = Append(history, LLMResponse(Render(resp_text'))) ]_vars
    /\ [][ (pc = "respond" /\ ~HasMarker(resp_text) /\ HasWrapper(resp_text))
           => /\ Len(history') = Len(history) + 1
              /\ SubSeq(history', 1, Len(history)) = history
              /\ history'[Len(history')].cls = "ToolCallResult" ]_vars
    /\ [](LoopStarted =>
            \A i \in 3..Len(history) :
                history[i].cls = (IF i % 2 = 1 THEN "LLMResponse" ELSE "ToolCallResult"))
    /\ [](Len(ModelResponses) <= max_turns)
    /\ [](llm_calls >= 1 => Len(messages) = 2 * turn)


\* The first opening tag that a closing tag follows, and the first closing
\* tag after it.
FirstOpen(segs) ==
    CHOOSE i \in 1..Len(segs) :
        /\ segs[i].kind = "open" /\ \E j \in (i+1)..Len(segs) : segs[j].kind = "close"
        /\ \A p \in 1..(i-1) :
              ~(segs[p].kind = "open" /\ \E j \in (p+1)..Len(segs) : segs[j].kind = "close")

FirstClose(segs) ==
    CHOOSE c \in (FirstOpen(segs)+1)..Len(segs) :
        /\ segs[c].kind = "close"
        /\ \A p \in (FirstOpen(segs)+1)..(c-1) : segs[p].kind # "close"

\* More than one wrapper: another one follows the first.
MultiWrapper(segs) ==
    /\ HasWrapper(segs)
    /\ \E i, j \in (FirstClose(segs)+1)..Len(segs) :
          i < j /\ segs[i].kind = "open" /\ segs[j].kind = "close"

\* What the first wrapper holds, white space aside.
FirstContent(segs) ==
    SelectSeq(SubSeq(segs, FirstOpen(segs) + 1, FirstClose(segs) - 1),
              LAMBDA x : x.kind # "space")

FirstIsJson(segs) == Len(FirstContent(segs)) = 1 /\ FirstContent(segs)[1].kind = "json"

FirstDoc(segs) == FirstContent(segs)[1].val

\* C25: a response without a termination marker that holds more than one
\* tool-call wrapper appends exactly one ToolCallResult, the one of the
\* content of the first wrapper; at most one tool is executed, and it is the
\* one the first wrapper names.
C25_FirstWrapperOnly ==
    [][ (pc = "respond" /\ ~HasMarker(resp_text) /\ MultiWrapper(resp_text))
        => /\ Len(history') = Len(history) + 1
           /\ SubSeq(history', 1, Len(history)) = history
           /\ history'[Len(history')].cls = "ToolCallResult"
           /\ exec_calls' - exec_calls \in {0, 1}
           /\ ~FirstIsJson(resp_text)
                => /\ history'[Len(history')].tool_name = PyStr("(parse_error)")
                   /\ exec_calls' = exec_calls
           /\ (FirstIsJson(resp_text) /\ exec_calls' # exec_calls)
                => /\ history'[Len(history')].tool_name = ToolName(FirstDoc(resp_text))
                   /\ history'[Len(history')].arguments = ToolArguments(FirstDoc(resp_text)) ]_vars


\* The history of the scenario after both turns.
ScenarioHistory ==
    /\ Len(history) = 5
    /\ history[1] = SystemPrompt(SystemText)
    /\ history[2] = UserInstruction(InstructionText)
    /\ history[3] = LLMResponse(Render(Wrapped(DocWrite)))
    /\ history[4].cls = "ToolCallResult"
    /\ history[4].tool_name = PyStr("fs.write")
    /\ history[4].arguments = ToolArguments(DocWrite)
    /\ history[4].error = PyNone
    /\ history[5] = LLMResponse("<terminate>")

\* C26: from the history [SystemPrompt, UserInstruction], with a valid
\* fs.write call on turn 1 and <terminate> on turn 2, the entries after the
\* first two are the response and the ToolCallResult of the write and the
\* response of the termination; the loop stops at turn 2 although more
\* turns are allowed, and nothing follows.
C26_WriteThenTerminate ==
    /\ [][ (pc = "respond" /\ turn = 1)
           => /\ pc' = "loop"
              /\ exec_calls' = 1
              /\ Len(history') = 4
              /\ history'[4].tool_name = PyStr("fs.write")
              /\ history'[4].error = PyNone ]_vars
    /\ [][ (pc = "respond" /\ turn = 2 /\ resp_text = <<SegTerminate>>)
           => pc' = "Terminated" /\ history' = history /\ turn' = turn ]_vars
    /\ []((pc # "respond" /\ turn = 2 /\ resp_text = <<SegTerminate>>)
            => /\ pc = "Terminated"
               /\ ScenarioHistory
               /\ llm_calls = 2
               /\ exec_calls = 1
               /\ turn < max_turns)
    /\ [][ pc = "Terminated" => UNCHANGED <<pc, history, turn, llm_calls, exec_calls>> ]_vars

C26_Witness ==
    /\ pc = "Terminated"
    /\ turn = 2
    /\ max_turns >= 3
    /\ resp_text = <<SegTerminate>>
    /\ ScenarioHistory
    /\ Truthy(history[4].result)
    /\ log[Len(log)] = "Terminate at turn 2"


\* The run is in its loop, or has left it.
InLoop == pc \in {"loop", "respond"}

\* The names the startup registers: every discovered tool, or those of the
\* allow-list.
StartupNames ==
    IF config.allowed_tools.configured
    THEN {n \in ToolNames : InAllowList(n)}
    ELSE ToolNames

\* C27: no step of the loop changes the registry, whatever the model asks
\* for and however the call ends; from the first query to the end of the
\* run the registered names are those the startup registered.
C27_RegistryFrozenInLoop ==
    /\ [][ InLoop => tool_registry' = tool_registry ]_vars
    /\ [](InLoop \/ (LoopStarted /\ RunEnded) => DOMAIN tool_registry = StartupNames)

C27_Witness ==
    /\ pc = "loop"
    /\ turn = 2
    /\ exec_calls = 1
    /\ history[4].error = PyStr("PermissionError: [Errno 13] Permission denied: 'package.json'")
    /\ history[6].error = PyStr("Unknown tool: fs.delete")
    /\ DOMAIN tool_registry = {"fs.read", "fs.write", "npm.init"}


\* The positions of the discovered tools that are registered, and the last
\* of them that holds the name.
RegisteredPositions ==
    {i \in 1..Len(all_tools) :
        ~config.allowed_tools.configured \/ InAllowList(all_tools[i].name)}

LastRegistered(name) ==
    CHOOSE i \in RegisteredPositions :
        /\ all_tools[i].name = name
        /\ \A j \in RegisteredPositions : all_tools[j].name = name => j <= i

\* C28: after the register_tool calls of the startup the registry holds,
\* under each registered name, the tool registered last with that name, one
\* tool per name, and the registration does not fail when names repeat.
C28_LastWriteWins ==
    /\ [][ pc = "initialize_tool_registry"
           => pc' = "load_system_prompt" /\ error' = NoExc ]_vars
    /\ [](pc = "load_system_prompt" =>
            /\ DOMAIN tool_registry = {all_tools[i].name : i \in RegisteredPositions}
            /\ \A n \in DOMAIN tool_registry :
                  /\ tool_registry[n] = all_tools[LastRegistered(n)]
                  /\ tool_registry[n].name = n
                  /\ ~get_tool_raises(tool_registry, PyStr(n)).raised)

C28_Witness ==
    /\ pc = "load_system_prompt"
    /\ Len(all_tools) = 3
    /\ all_tools[1].name = "fs.read"
    /\ all_tools[3].name = "fs.read"
    /\ all_tools[1] # all_tools[3]
    /\ tool_registry["fs.read"] = all_tools[3]
    /\ Cardinality(DOMAIN tool_registry) = 2


\* C29: each registered tool had its initialize called, and the calls made
\* are as many as the registered tools, so each was called once; the calls
\* are made before the first model query and the first execute, and none is
\* made in the loop.  A step executes at most one tool, the one the response
\* of the turn names, and a turn executes at most once.
C29_InitializeOnceBeforeLoop ==
    /\ [](RegistryBuilt \/ (LoopStarted /\ RunEnded) =>
            /\ \A n \in DOMAIN tool_registry : tool_init[n] \in {"returned", "raised"}
            /\ init_calls = Cardinality(DOMAIN tool_registry))
    /\ [](init_calls = 0 /\ tool_init = NotInitialized
            => llm_calls = 0 /\ exec_calls = 0 /\ tool_registry = NoTools)
    /\ [][ (llm_calls' # llm_calls \/ exec_calls' # exec_calls \/ InLoop)
           => init_calls' = init_calls /\ tool_init' = tool_init ]_vars
    /\ [][ exec_calls' # exec_calls
           => /\ exec_calls' = exec_calls + 1
              /\ pc = "respond" /\ pc' # "respond"
              /\ AsksFor(resp_text, ToolName(CallOf(resp_text)).s)
              /\ ToolName(CallOf(resp_text)).s \in DOMAIN tool_registry
              /\ tool_init[ToolName(CallOf(resp_text)).s] # "no"
              /\ pc' = "loop" => history'[Len(history')].tool_name = ToolName(CallOf(resp_text)) ]_vars
    /\ [](exec_calls <= llm_calls)

C29_Witness ==
    /\ pc = "loop"
    /\ turn = 2
    /\ exec_calls = 2
    /\ init_calls = 3
    /\ tool_init["npm.init"] = "raised"
    /\ tool_init["fs.read"] = "returned"
    /\ tool_init["fs.delete"] = "no"
    /\ history[4].tool_name = PyStr("npm.init")
    /\ history[6].tool_name = PyStr("fs.read")


\* The call object that is dispatched again and again.
RepeatedCall == json_loads(group1_strip(resp_text)).val

\* The call reads the log of the agent, or a directory that holds it.
ReadsOwnLog(call) ==
    LET p == DictGet(ToolArguments(call), "path", PyStr(".")).s
    IN  \/ p = ".waa/agent.log"
        \/ ToolName(call).s \in {"fs.ls", "fs.tree"} /\ p = ".waa"
        \/ ToolName(call).s = "fs.tree" /\ p = "."

SameOutcome(a, b) ==
    /\ a.tool_name = b.tool_name
    /\ a.arguments = b.arguments
    /\ a.result = b.result
    /\ a.error = b.error

\* C30: the same call object dispatched repeatedly to fs.read, fs.ls or
\* fs.tree, with nobody else touching the working directory, gives
\* ToolCallResults with the same tool name, arguments, result and error
\* every time; each dispatch appends one entry to the history and neither
\* creates nor removes a file.
C30_PureDispatchRepeatable ==
    /\ [](\A i, j \in 1..Len(history) : SameOutcome(history[i], history[j]))
    /\ [][ exec_calls' # exec_calls
           => /\ files' = files
              /\ Len(history') = Len(history) + 1
              /\ SubSeq(history', 1, Len(history)) = history
              /\ history'[Len(history')].tool_name = ToolName(RepeatedCall)
              /\ history'[Len(history')].arguments = ToolArguments(RepeatedCall)
              /\ history'[Len(history')].error = PyNone ]_vars

\* The path argument of a recorded fs call.
PathOf(entry) == DictGet(entry.arguments, "path", PyStr(".")).s

\* The path arguments that leave the working directory: an absolute path
\* elsewhere, or ".." steps that climb above the root.
LeavesWorkingDir(p) == p \in {"../outside.txt", "/etc/passwd", "secrets/../../outside.txt"}

\* C31: every fs tool confines its path to the working directory.  A call
\* whose path argument resolves outside it (an absolute path, or a "../"
\* traversal) returns the failure value "Path is outside working directory"
\* with no data, and the whole tree is as it was; and whatever the call,
\* nothing outside the working directory changes.
C31_ConfinedToWorkingDir ==
    [][ exec_calls' # exec_calls
        => /\ \A l \in OutsideLocs : files'[l] = files[l]
           /\ LeavesWorkingDir(PathOf(history'[Len(history')]))
                => /\ files' = files
                   /\ history'[Len(history')].error = PyNone
                   /\ history'[Len(history')].result
                        = FailResult("Path is outside working directory") ]_vars

C31_Witness ==
    /\ Len(history) = 2
    /\ history[1].tool_name = PyStr("fs.write")
    /\ PathOf(history[1]) = "newdir/a.txt"
    /\ files["newdir/a.txt"] = RegularFile("bye")
    /\ history[2].tool_name = PyStr("fs.rmdir")
    /\ PathOf(history[2]) = "secrets/../../outside.txt"
    /\ DictGet(history[2].arguments, "recursive", PyNone) = PyBool(TRUE)
    /\ history[2].result = FailResult("Path is outside working directory")
    /\ \A l \in OutsideLocs : files[l] = FsDisk[l]

\* The text between the first <tool_call> and the first </tool_call> after
\* it, without the white space around it.
FirstRaw(segs) ==
    Render(RStrip(LStrip(SubSeq(segs, FirstOpen(segs) + 1, FirstClose(segs) - 1))))

\* C32: a turn whose first wrapper holds invalid JSON (and no termination
\* marker) appends exactly one ToolCallResult with the tool name
\* "(parse_error)", the arguments {"raw": the stripped content of the first
\* wrapper}, an empty result and the error "Invalid tool_call JSON: " followed
\* by the exception's type and message; no tool is executed in that turn and
\* the loop goes on.
C32_ParseFailureRecorded ==
    [][ (pc = "respond" /\ BadJsonTurn(resp_text))
        => /\ Len(history') = Len(history) + 1
           /\ SubSeq(history', 1, Len(history)) = history
           /\ history'[Len(history')].cls = "ToolCallResult"
           /\ history'[Len(history')].tool_name = PyStr("(parse_error)")
           /\ history'[Len(history')].arguments
                = PyDict(<<KV("raw", PyStr(FirstRaw(resp_text)))>>)
           /\ history'[Len(history')].result = PyStr("")
           /\ history'[Len(history')].error
                = PyStr("Invalid tool_call JSON: JSONDecodeError: "
                        \o json_loads(group1_strip(resp_text)).exc.msg)
           /\ exec_calls' = exec_calls
           /\ pc' = "loop" ]_vars

C32_Witness ==
    /\ pc = "loop"
    /\ resp_text = <<SegOpen, SegMalformed, SegClose>> \o Wrapped(DocRead)
    /\ LastEntry.tool_name = PyStr("(parse_error)")
    /\ LastEntry.arguments = PyDict(<<KV("raw", PyStr("{'tool': 'fs.read'}"))>>)
    /\ exec_calls = 0
    /\ llm_calls = 1

\* C32 as stated: the arguments of the recorded entry carry the raw text of
\* the response.
C32_RawIsResponseText ==
    [][ (pc = "respond" /\ BadJsonTurn(resp_text))
        => /\ Len(history') = Len(history) + 1
           /\ history'[Len(history')].tool_name = PyStr("(parse_error)")
           /\ history'[Len(history')].arguments
                = PyDict(<<KV("raw", PyStr(Render(resp_text)))>>)
           /\ exec_calls' = exec_calls ]_vars

\* C33: whenever the execute of a tool returns normally, whatever the value
\* (a record with ok = false and an error string included), the dispatch
\* records success: one ToolCallResult is appended, its result is the
\* returned value and its error is absent, and its projected text is the
\* tool's name and the serialized value, without the "(error)" marker.
\* Every execute of waa.tools.fs returns normally.
C33_ReturnRecordsSuccess ==
    [][ exec_calls' # exec_calls
        => /\ Len(history') = Len(history) + 1
           /\ SubSeq(history', 1, Len(history)) = history
           /\ history'[Len(history')].error = PyNone
           /\ history'[Len(history')].result
                = FsExecute(history'[Len(history')].tool_name.s,
                            history'[Len(history')].arguments,
                            files, config.protected_files).result
           /\ extract_text_for_entry(history'[Len(history')])
                = "[Tool:" \o history'[Len(history')].tool_name.s \o "] "
                    \o json_dumps(history'[Len(history')].result) ]_vars

\* The dispatched call ends in disposition 1, 2 or 3: the tool name is absent
\* or empty; or it names no registered tool; or the arguments fail the
\* schema of the tool it names.
MissingName(call) == call.ty = "dict" /\ ~Truthy(ToolName(call))

UnknownName(call) ==
    /\ call.ty = "dict"
    /\ Truthy(ToolName(call))
    /\ Hashable(ToolName(call))
    /\ ~(ToolName(call).ty = "str" /\ ToolName(call).s \in DOMAIN tool_registry)

InvalidArguments(call) ==
    /\ call.ty = "dict"
    /\ ToolName(call).ty = "str"
    /\ ToolName(call).s \in DOMAIN tool_registry
    /\ SchemaValidate(tool_registry[ToolName(call).s].schema, ToolArguments(call)).raised

\* C34: a dispatch that ends in disposition 1, 2 or 3 (missing tool name,
\* unknown tool, schema validation failure) never calls a tool's execute.
\* The only change is one ToolCallResult appended to the history, carrying
\* the arguments of the call, no result and an error, and one line added to
\* the log; the registry, the state of every tool and the files of the
\* working directory are as before.
C34_RejectedCallChangesNothing ==
    [][ ( /\ pc = "execute_tool"
          /\ MissingName(DispatchedCall) \/ UnknownName(DispatchedCall)
                \/ InvalidArguments(DispatchedCall) )
        => /\ exec_calls' = exec_calls
           /\ Len(history') = Len(history) + 1
           /\ SubSeq(history', 1, Len(history)) = history
           /\ history'[Len(history')].cls = "ToolCallResult"
           /\ history'[Len(history')].arguments = ToolArguments(DispatchedCall)
           /\ history'[Len(history')].result = PyNone
           /\ Truthy(history'[Len(history')].error)
           /\ Len(log') = Len(log) + 1
           /\ SubSeq(log', 1, Len(log)) = log
           /\ UNCHANGED <<tool_registry, tool_init, init_calls, all_tools, files, config>>
           /\ pc' = "executed" ]_vars

C34_Witness ==
    /\ pc = "executed"
    /\ DispatchedCall = DocBadType
    /\ "fs.read" \in DOMAIN tool_registry
    /\ exec_calls = 0
    /\ Len(history) = 1
    /\ history[1].tool_name = PyStr("fs.read")
    /\ history[1].result = PyNone
    /\ Truthy(history[1].error)

\* The line the else of the for loop logs.
MaxTurnsLine == "Reached max_turns=" \o ToString(max_turns) \o " without termination."

\* C35: the last history entry tells how the run ended.  In the states
\* Terminated and ProtocolViolated it is the ModelResponse of the final turn,
\* with no ToolCallResult after it; in the state Exhausted with
\* max_turns >= 1 it is a ToolCallResult.  A run whose response on turn
\* max_turns holds the termination marker is Terminated, not Exhausted, and
\* its log does not hold the max-turns line.
C35_LastEntryTellsTheEnd ==
    /\ pc \in {"Terminated", "ProtocolViolated"}
         => /\ LastEntry = LLMResponse(Render(resp_text))
            /\ \A i \in 1..Len(log) : log[i] # MaxTurnsLine
    /\ (pc = "Exhausted" /\ max_turns >= 1)
         => /\ LastEntry.cls = "ToolCallResult"
            /\ log[Len(log)] = MaxTurnsLine
    /\ (pc \in TerminalStates /\ LoopStarted /\ HasMarker(resp_text))
         => pc = "Terminated"

C35_Witness ==
    /\ pc = "Terminated"
    /\ max_turns = 2
    /\ turn = max_turns
    /\ LastEntry = LLMResponse("<terminate>")
    /\ history[Len(history) - 1].cls = "ToolCallResult"
    /\ log[Len(log)] = "Terminate at turn 2"

\* C36: with a configured max_turns below 1 the loop queries no model and
\* executes no tool: from the end of the startup the run goes to the state
\* Exhausted, with the history exactly [SystemPrompt, UserInstruction] and
\* the max-turns line as the last line of the log.
C36_NoTurnBelowOne ==
    /\ [](config.max_turns < 1
            => /\ llm_calls = 0
               /\ exec_calls = 0
               /\ turn = 0
               /\ pc \notin {"respond", "Terminated", "ProtocolViolated"}
               /\ pc = "Exhausted"
                    => /\ Len(history) = 2
                       /\ history[1].cls = "SystemPrompt"
                       /\ history[2].cls = "UserInstruction"
                       /\ log[Len(log)] = "Reached max_turns=" \o ToString(config.max_turns)
                                              \o " without termination.")
    /\ [][ (pc = "loop" /\ config.max_turns < 1)
           => /\ pc' = "Exhausted"
              /\ history' = history ]_vars

C36_Witness ==
    /\ pc = "Exhausted"
    /\ config.max_turns = 0
    /\ max_turns = 0
    /\ llm_calls = 0
    /\ exec_calls = 0
    /\ Len(history) = 2
    /\ log[Len(log)] = "Reached max_turns=0 without termination."

\* The locations the configuration protects: the directory listed in
\* protected_files and what lies beneath it.
ProtectedLocs == {"secrets", "secrets/key.pem"}

\* C37: no fs call modifies or deletes a protected path or anything beneath
\* it.  fs.write, fs.edit and fs.delete on such a path return the failure
\* "Path is protected"; and no call of any fs tool, fs.rmdir (with or
\* without recursive) and fs.mkdir included, changes a protected location.
C37_ProtectedUntouched ==
    [][ exec_calls' # exec_calls
        => /\ \A l \in ProtectedLocs : files'[l] = files[l]
           /\ ( /\ history'[Len(history')].tool_name.s \in {"fs.write", "fs.edit", "fs.delete"}
                /\ PathOf(history'[Len(history')]) \in ProtectedLocs )
                => history'[Len(history')].result = FailResult("Path is protected") ]_vars

\* Agent.run is at work on the agent on which Agent.initialize completed: it
\* is in the startup and the history holds the two initial entries.
RunOnInitialized ==
    /\ pc \in {"initialize_environment", "initialize_llm", "initialize_logger"}
    /\ Len(history) = 2

LogExistsError ==
    Exc("RuntimeError", "Log file already exists: .waa/agent.log. Remove it to start a new run.")

\* C38: Agent.run on an agent on which Agent.initialize has completed fails
\* with the log-already-exists error: the log that initialize created is
\* there, the run moves through the startup up to initialize_logger only and
\* the one exception that leaves it is that error; no model call and no
\* execute happens, and the history stays the SystemPrompt and the
\* UserInstruction, with no second copy.
C38_RunAfterInitializeFails ==
    /\ []((pc = "initialized" \/ RunOnInitialized)
            => /\ files.log
               /\ history = <<SystemPrompt(SystemText), UserInstruction(InstructionText)>>
               /\ llm_calls = 0
               /\ exec_calls = 0
               /\ turn = 0)
    /\ [][ (pc = "initialized" \/ RunOnInitialized)
           => /\ history' = history
              /\ llm_calls' = 0
              /\ exec_calls' = 0
              /\ pc' \in {"initialize_environment", "initialize_llm", "initialize_logger",
                           "Raised"}
              /\ pc = "initialize_logger" => pc' = "Raised"
              /\ pc' = "Raised" => error' = LogExistsError ]_vars

C38_Witness ==
    /\ pc = "Raised"
    /\ error = LogExistsError
    /\ history = <<SystemPrompt(SystemText), UserInstruction(InstructionText)>>
    /\ llm_calls = 0
    /\ turn = 0
    /\ files.log

\* C39: a startup that fails in load_instruction, after the log was opened,
\* leaves the log file as it is; whenever the log exists, initialize_logger
\* fails with the log-already-exists error, whether or not the cause was
\* repaired, and no step of a run or of the repair removes the log; once it
\* is removed the startup passes initialize_logger.  A startup that fails in
\* initialize_environment or initialize_llm, before the log is opened,
\* creates no log file.
C39_FailedStartupLeavesLog ==
    /\ [][ (pc = "load_instruction" /\ pc' = "Raised")
           => /\ files.log
              /\ files' = files
              /\ log' = log ]_vars
    /\ [][ (pc = "initialize_logger" /\ files.log)
           => /\ pc' = "Raised"
              /\ error' = LogExistsError
              /\ files' = files ]_vars
    /\ [][ (files.log /\ ~files'.log)
           => /\ pc = "Raised"
              /\ files'.config = files.config
              /\ files'.instruction = files.instruction
              /\ config' = config ]_vars
    /\ [][ (pc = "initialize_logger" /\ ~files.log)
           => (pc' = "initialize_tool_registry" /\ files'.log) ]_vars
    /\ [][ (pc = "initialize_environment" \/ pc = "initialize_llm")
           => (files' = files /\ log' = log) ]_vars

C39_Witness ==
    /\ pc = "Raised"
    /\ error = LogExistsError
    /\ history = <<>>
    /\ files = [config |-> TRUE, log |-> TRUE, instruction |-> TRUE]
    /\ log[Len(log)] = "System prompt loaded into history"

\* The recorded call of the last dispatch and the id it gives.
LastCall(h) == h[Len(h)]

GivenId(h) == DictGet(LastCall(h).arguments, "id", PyNone).n

Stored(todos, id) == \E i \in 1..Len(todos) : todos[i].id = id

\* C40: from an empty list, after any sequence of todo.add, todo.complete
\* and todo.remove the stored ids are pairwise distinct.  todo.add with a
\* description appends one pending item whose id is greater than every
\* stored id; todo.remove with a stored id deletes that item and no other;
\* todo.complete with a stored id sets the status of that item to completed
\* (also when it was completed already) and changes nothing else but its
\* completion time; a call with an id that is not stored returns a failure
\* and leaves the list as it was.
C40_TodoIdsDistinct ==
    /\ [](\A i, j \in 1..Len(files.todo) : i # j => files.todo[i].id # files.todo[j].id)
    /\ [][ (exec_calls' # exec_calls /\ LastCall(history').tool_name = PyStr("todo.add"))
           => \/ /\ DictGet(LastCall(history').result, "ok", PyNone) = PyBool(FALSE)
                 /\ files' = files
              \/ /\ DictGet(LastCall(history').result, "ok", PyNone) = PyBool(TRUE)
                 /\ Len(files'.todo) = Len(files.todo) + 1
                 /\ SubSeq(files'.todo, 1, Len(files.todo)) = files.todo
                 /\ files'.todo[Len(files'.todo)].status = "pending"
                 /\ \A i \in 1..Len(files.todo) :
                       files'.todo[Len(files'.todo)].id > files.todo[i].id ]_vars
    /\ [][ ( /\ exec_calls' # exec_calls
             /\ LastCall(history').tool_name = PyStr("todo.remove")
             /\ Stored(files.todo, GivenId(history')) )
           => /\ DictGet(LastCall(history').result, "ok", PyNone) = PyBool(TRUE)
              /\ Len(files'.todo) = Len(files.todo) - 1
              /\ files'.todo = SelectSeq(files.todo, LAMBDA t : t.id # GivenId(history')) ]_vars
    /\ [][ ( /\ exec_calls' # exec_calls
             /\ LastCall(history').tool_name = PyStr("todo.complete")
             /\ Stored(files.todo, GivenId(history')) )
           => /\ DictGet(LastCall(history').result, "ok", PyNone) = PyBool(TRUE)
              /\ Len(files'.todo) = Len(files.todo)
              /\ \A i \in 1..Len(files.todo) :
                    /\ files'.todo[i].id = files.todo[i].id
                    /\ files'.todo[i].description = files.todo[i].description
                    /\ files'.todo[i].created_at = files.todo[i].created_at
                    /\ files.todo[i].id = GivenId(history')
                         => files'.todo[i].status = "completed"
                    /\ files.todo[i].id # GivenId(history')
                         => files'.todo[i] = files.todo[i] ]_vars
    /\ [][ ( /\ exec_calls' # exec_calls
             /\ LastCall(history').tool_name \in {PyStr("todo.remove"), PyStr("todo.complete")}
             /\ ~Stored(files.todo, GivenId(history')) )
           => /\ DictGet(LastCall(history').result, "ok", PyNone) = PyBool(FALSE)
              /\ files' = files ]_vars

C40_Witness ==
    /\ Len(history) = 4
    /\ history[3].tool_name = PyStr("todo.remove")
    /\ history[4].tool_name = PyStr("todo.add")
    /\ history[3].result = OkResult(PyDict(<<KV("removed_id", PyInt(2))>>))
    /\ Len(files.todo) = 2
    /\ files.todo[1].id = 1
    /\ files.todo[2].id = 2
    /\ files.todo[2].created_at = 3

============================================================================
